---- MODULE Spec2Model ----
(***************************************************************************)
(* The two structural builders of the SDK as state machines.               *)
(*                                                                         *)
(*   ReportBuilder   src/gOS_api_sdk/report_factory.py                     *)
(*   InsightBuilder  src/polyteia_sdk_python/insight_factory.py            *)
(*   (InsightBuilderBase, InsightBuilder and InsightBuilderV3)             *)
(*                                                                         *)
(* A Python Optional is a sequence of length 0 (None) or 1 (a value).      *)
(* A call that raises is an action that sets raised' = TRUE and changes    *)
(* exactly what the handler changed before the raise statement.            *)
(***************************************************************************)
EXTENDS Integers, Sequences, FiniteSets, TLC

VARIABLES
    \* ---- ReportBuilder fields (report_factory.py:50-58)
    content,                 \* self._content["editorState"]
    name,                    \* self._name
    insights,                \* self._insights
    current_column_group,    \* self._current_column_group (Optional)
    current_column,          \* self._current_column (Optional)
    \* ---- what the caller of the ReportBuilder observes
    op,                      \* the operation called last
    prevOp,                  \* the operation called before that one
    arg,                     \* the argument of the last call (Optional)
    raised,                  \* whether that call raised
    out,                     \* the document that call returned (Optional; build only)
    keeps,                   \* whether the caller holds on to the document
                             \* ReportBuilder.build() returns
    returned,                \* that document as it was when build() returned it
    \* ---- bookkeeping of the run
    idCounter,               \* block ids handed out so far (uuid4 tokens are fresh)
    added,                   \* ids of the blocks stored by successful add_* calls
    calls,                   \* calls made on the builder so far
    \* ---- the query builder (insight_factory.py:138-620)
    gen,                     \* "current": InsightBuilder, "v3": InsightBuilderV3,
                             \* "gos": InsightBuilderV3 of gOS_api_sdk
    insight,                 \* self._insight
    joinOnLists,             \* per dataset, which list object its join["on"] is
    \* ---- the gateway behind api_utils.py (api_utils.py:226-572)
    gateway,                 \* the insights of the solution, in listing order
    sent                     \* the commands the last api_utils call sent

rvars == <<content, name, insights, current_column_group, current_column,
           op, prevOp, arg, raised, out, keeps, returned, idCounter, added,
           calls>>

ivars == <<gen, insight, joinOnLists>>

avars == <<gateway, sent>>

vars == <<rvars, ivars, avars>>

(***************************************************************************)
(* Bounds of the model.                                                    *)
(***************************************************************************)
\* calls made on a ReportBuilder when every operation is available
MaxCalls == 3
\* calls made on a query builder
MaxInsightCalls == 3
\* calls made on a query builder when add_filter is tried with every operator
MaxFilterCalls == 2
\* calls made on a ReportBuilder when add_text and add_widget stand for the
\* block-adding operations (all twelve go through the same insertion code)
MaxColumnCalls == 5
\* calls made on a query builder whose lists are looked at
MaxQueryCalls == 3
\* calls made on a query builder whose chart config is looked at
MaxChartCalls == 3
\* calls made on a legacy query builder
MaxLegacyCalls == 3
\* calls made on a ReportBuilder and a query builder used side by side
MaxBuilderCalls == 3
\* calls made on a ReportBuilder whose built documents are kept
MaxSnapshotCalls == 4
\* calls of create_or_update_insight
MaxApiCalls == 3

None == <<>>
Some(x) == <<x>>
IsNone(o) == Len(o) = 0
Val(o) == o[1]

Last(s) == s[Len(s)]
Front(s) == SubSeq(s, 1, Len(s) - 1)

(***************************************************************************)
(* Inputs.                                                                 *)
(***************************************************************************)
\* ColumnLayout presets (report_factory.py:39-44) and explicit width lists,
\* the empty list included: start_columns accepts any List[str].
Layouts ==
    { <<>>,
      <<"100%">>,
      <<"70%", "30%">>,
      <<"25%", "50%", "25%">> }

InsightIds == {"insight_1", "insight_2"}
Names == {"report"}

(***************************************************************************)
(* _generate_block_id: a fresh token per call.                             *)
(***************************************************************************)
BlockId(n) == n + 1

(***************************************************************************)
(* The blocks the add_* methods construct.                                 *)
(***************************************************************************)
TextChild(t) == [text |-> t]

HeadingBlock(id) ==
    [type |-> "h1", id |-> id, children |-> <<TextChild("heading")>>]

TextBlock(id) ==
    [type |-> "p", id |-> id, children |-> <<TextChild("text")>>]

ListBlock(id) ==
    [type |-> "list", id |-> id, listStyleType |-> "disc",
     children |-> <<[type |-> "li", children |-> <<TextChild("item")>>]>>]

TableBlock(id) ==
    [type |-> "table", id |-> id,
     children |-> <<[type |-> "tr",
                     children |-> <<[type |-> "th",
                                     children |-> <<TextChild("cell")>>]>>]>>]

WidgetBlock(id, insight_id) ==
    [type |-> "widget", id |-> id, children |-> <<TextChild("")>>,
     widgetData |-> [insightId |-> insight_id], height |-> None]

HorizontalRuleBlock(id) ==
    [type |-> "hr", id |-> id, children |-> <<TextChild("")>>]

LinkBlock(id) ==
    [type |-> "link", id |-> id, url |-> "url", children |-> <<TextChild("link")>>]

BlockquoteBlock(id) ==
    [type |-> "blockquote", id |-> id, children |-> <<TextChild("quote")>>]

CodeBlock(id) ==
    [type |-> "code_block", id |-> id, language |-> None,
     children |-> <<[type |-> "code_line", children |-> <<TextChild("code")>>]>>]

DateBlock(id) ==
    [type |-> "date", id |-> id, children |-> <<TextChild("date")>>]

ToggleBlock(id) ==
    [type |-> "toggle", id |-> id,
     children |-> <<TextChild("header"),
                    [type |-> "toggle_content",
                     children |-> <<TextChild("hidden")>>]>>]

EquationBlock(id) ==
    [type |-> "equation", id |-> id, equation |-> "x", children |-> <<TextChild("")>>]

\* the placeholder end_columns puts into an empty column
EmptyParagraph(id) ==
    [type |-> "p", id |-> id, children |-> <<TextChild("")>>]

Column(id, width) ==
    [type |-> "column", id |-> id, width |-> width, children |-> <<>>]

\* no insight exists in the solution, nothing was sent
GatewayInit ==
    /\ gateway = <<>>
    /\ sent = <<>>

(***************************************************************************)
(* State after ReportBuilder.__init__.                                     *)
(***************************************************************************)
ReportInitKeeping(k) ==
    /\ content = <<>>
    /\ name = ""
    /\ insights = <<>>
    /\ current_column_group = None
    /\ current_column = None
    /\ op = "init"
    /\ prevOp = "init"
    /\ arg = None
    /\ raised = FALSE
    /\ out = None
    /\ idCounter = 0
    /\ added = <<>>
    /\ calls = 0
    /\ keeps = k
    /\ returned = None

\* the caller drops the documents build() returns
ReportInit == ReportInitKeeping(FALSE)

\* the caller makes the call `opname` with argument `a`
Call(opname, a) ==
    /\ op' = opname
    /\ prevOp' = op
    /\ arg' = a
    /\ calls' = calls + 1
    /\ UNCHANGED <<keeps, avars>>

\* the run stops after n calls
Within(n) == calls < n

\* a call on the ReportBuilder
ReportCall(opname, a) ==
    /\ Call(opname, a)
    /\ UNCHANGED <<ivars, returned>>

\* `if self._current_column_group`: a group dict always has three keys, so it
\* is falsy only when the field is None.
GroupOpen == ~IsNone(current_column_group)

\* `self._current_column_group and self._current_column is not None`
InColumn == GroupOpen /\ ~IsNone(current_column)

Columns == Val(current_column_group).children

\* faulty variant: the block goes to the first column, whichever is active
AppendToColumn_First(group, k, block) ==
    [group EXCEPT !.children[1].children = Append(@, block)]

\* group["children"][k]["children"].append(block), k counted from 0
AppendToColumn(group, k, block) ==
    [group EXCEPT !.children[k + 1].children = Append(@, block)]

\* `if "children" not in block: block = {"children": [block]}`
WrapForColumn(block) ==
    IF "children" \in DOMAIN block THEN block ELSE [children |-> <<block>>]

\* the subscript [self._current_column] raises IndexError past the last column
ColumnIndexError == Val(current_column) >= Len(Columns)

(***************************************************************************)
(* _add_block(block)                                                       *)
(***************************************************************************)
AddBlock(block) ==
    IF InColumn
    THEN IF ColumnIndexError
         THEN /\ raised' = TRUE
              /\ UNCHANGED <<content, current_column_group>>
         ELSE /\ raised' = FALSE
              /\ current_column_group' =
                     Some(AppendToColumn(Val(current_column_group),
                                         Val(current_column),
                                         WrapForColumn(block)))
              /\ UNCHANGED content
    ELSE /\ raised' = FALSE
         /\ content' = Append(content, block)
         /\ UNCHANGED current_column_group

\* an add_* method that builds one block and hands it to _add_block
AddOp(opname, block) ==
    /\ ReportCall(opname, None)
    /\ AddBlock(block)
    /\ added' = IF raised' THEN added ELSE Append(added, block.id)
    /\ idCounter' = IF raised' THEN idCounter ELSE idCounter + 1
    /\ out' = None
    /\ UNCHANGED <<name, insights, current_column>>

add_heading == AddOp("add_heading", HeadingBlock(BlockId(idCounter)))
add_text == AddOp("add_text", TextBlock(BlockId(idCounter)))
add_list == AddOp("add_list", ListBlock(BlockId(idCounter)))
add_table == AddOp("add_table", TableBlock(BlockId(idCounter)))
add_horizontal_rule == AddOp("add_horizontal_rule", HorizontalRuleBlock(BlockId(idCounter)))
add_link == AddOp("add_link", LinkBlock(BlockId(idCounter)))
add_blockquote == AddOp("add_blockquote", BlockquoteBlock(BlockId(idCounter)))
add_code == AddOp("add_code", CodeBlock(BlockId(idCounter)))
add_date == AddOp("add_date", DateBlock(BlockId(idCounter)))
add_toggle == AddOp("add_toggle", ToggleBlock(BlockId(idCounter)))
add_equation == AddOp("add_equation", EquationBlock(BlockId(idCounter)))

\* faulty variant: the insight is appended without the membership test
TrackInsight_Always(list, insight_id) == Append(list, insight_id)

\* `if insight_id not in self._insights: self._insights.append(insight_id)`
TrackInsight(list, insight_id) ==
    IF \E i \in 1..Len(list) : list[i] = insight_id
    THEN list
    ELSE Append(list, insight_id)

(***************************************************************************)
(* add_widget(insight_id): the insight is tracked before the widget is     *)
(* stored, and the widget is stored without going through _add_block.      *)
(***************************************************************************)
add_widget(insight_id) ==
    LET widget == WidgetBlock(BlockId(idCounter), insight_id) IN
    /\ ReportCall("add_widget", Some(insight_id))
    /\ insights' = TrackInsight(insights, insight_id)
    /\ IF InColumn
       THEN IF ColumnIndexError
            THEN /\ raised' = TRUE
                 /\ UNCHANGED <<content, current_column_group>>
            ELSE /\ raised' = FALSE
                 /\ current_column_group' =
                        Some(AppendToColumn(Val(current_column_group),
                                            Val(current_column), widget))
                 /\ UNCHANGED content
       ELSE /\ raised' = FALSE
            /\ content' = Append(content, widget)
            /\ UNCHANGED current_column_group
    /\ added' = IF raised' THEN added ELSE Append(added, widget.id)
    /\ idCounter' = IF raised' THEN idCounter ELSE idCounter + 1
    /\ out' = None
    /\ UNCHANGED <<name, current_column>>

(***************************************************************************)
(* set_name(name)                                                          *)
(***************************************************************************)
set_name(n) ==
    /\ ReportCall("set_name", Some(n))
    /\ raised' = FALSE
    /\ name' = n
    /\ out' = None
    /\ UNCHANGED <<content, insights, current_column_group, current_column,
                   idCounter, added>>

(***************************************************************************)
(* add_dataset(dataset_id): the method reads self._metadata["datasets"],   *)
(* and no code of the class (nor a class attribute) ever sets _metadata,   *)
(* so the read raises AttributeError before anything is written.           *)
(***************************************************************************)
add_dataset(dataset_id) ==
    /\ ReportCall("add_dataset", Some(dataset_id))
    /\ raised' = TRUE
    /\ out' = None
    /\ UNCHANGED <<content, name, insights, current_column_group,
                   current_column, idCounter, added>>

\* the columns start_columns creates for `widths`, ids following the group's
NewColumns(widths, groupId) ==
    [i \in 1..Len(widths) |-> Column(groupId + i, widths[i])]

NewGroup(widths, groupId) ==
    [type |-> "column_group", id |-> groupId,
     children |-> NewColumns(widths, groupId)]

(***************************************************************************)
(* start_columns(layout)                                                   *)
(***************************************************************************)
start_columns(widths) ==
    /\ ReportCall("start_columns", Some(widths))
    /\ raised' = FALSE
    /\ current_column_group' = Some(NewGroup(widths, BlockId(idCounter)))
    /\ current_column' = Some(0)
    /\ idCounter' = idCounter + 1 + Len(widths)
    /\ out' = None
    /\ UNCHANGED <<content, name, insights, added>>

\* `self._current_column += 1`
NextColumnIndex(k) == k + 1

\* faulty variant: the comparison lets the index reach the column count
NoMoreColumns_OffByOne(k, n) == k > n

\* `self._current_column >= len(self._current_column_group["children"])`
NoMoreColumns(k, n) == k >= n

(***************************************************************************)
(* next_column()                                                           *)
(***************************************************************************)
next_column ==
    /\ ReportCall("next_column", None)
    /\ IF ~GroupOpen
       THEN /\ raised' = TRUE
            /\ UNCHANGED current_column
       ELSE /\ current_column' = Some(NextColumnIndex(Val(current_column)))
            /\ raised' = NoMoreColumns(Val(current_column'), Len(Columns))
    /\ out' = None
    /\ UNCHANGED <<content, name, insights, current_column_group,
                   idCounter, added>>

\* number of columns among cols[1..i] that have no children
RECURSIVE EmptyBefore(_, _)
EmptyBefore(cols, i) ==
    IF i = 0 THEN 0
    ELSE EmptyBefore(cols, i - 1) + (IF cols[i].children = <<>> THEN 1 ELSE 0)

\* faulty variant: every column gets an empty paragraph, empty or not
FillEmptyColumns_All(cols, firstId) ==
    [i \in 1..Len(cols) |->
        [cols[i] EXCEPT !.children = Append(@, EmptyParagraph(firstId + i - 1))]]

\* the loop of end_columns: an empty column gets one empty paragraph
FillEmptyColumns(cols, firstId) ==
    [i \in 1..Len(cols) |->
        IF cols[i].children = <<>>
        THEN [cols[i] EXCEPT !.children =
                 <<EmptyParagraph(firstId + EmptyBefore(cols, i - 1))>>]
        ELSE cols[i]]

(***************************************************************************)
(* end_columns()                                                           *)
(***************************************************************************)
end_columns ==
    /\ ReportCall("end_columns", None)
    /\ raised' = FALSE
    /\ IF GroupOpen
       THEN /\ content' = Append(content,
                  [Val(current_column_group) EXCEPT !.children =
                      FillEmptyColumns(Columns, BlockId(idCounter))])
            /\ idCounter' = idCounter + EmptyBefore(Columns, Len(Columns))
            /\ current_column_group' = None
            /\ current_column' = None
       ELSE UNCHANGED <<content, idCounter, current_column_group, current_column>>
    /\ out' = None
    /\ UNCHANGED <<name, insights, added>>

\* the dict build() returns; description, solution_id and organization_id are
\* scalars set and returned the way name is
Document ==
    [name |-> name,
     content |-> [editorState |-> content],
     metadata |-> [insights |-> insights]]

\* the document an earlier build() returned, as its holder sees it now: the
\* dict holds self._content and self._insights themselves, not copies, and
\* the builder goes on appending to those two objects
ReturnedNow ==
    [name |-> Val(returned).name,
     content |-> [editorState |-> content],
     metadata |-> [insights |-> insights]]

\* faulty variant: build() closes the open group without storing it
BuildFlush_Dropped(group) == content

\* what build() does with a still open group
BuildFlush(group) == Append(content, group)

\* faulty variant: build() stores the open group and leaves it open
build_LeavesGroupOpen ==
    /\ Call("build", None)
    /\ UNCHANGED ivars
    /\ raised' = FALSE
    /\ IF GroupOpen
       THEN content' = BuildFlush(Val(current_column_group))
       ELSE UNCHANGED content
    /\ UNCHANGED <<name, insights, idCounter, added,
                   current_column_group, current_column>>
    /\ out' = Some(Document')
    /\ returned' = IF keeps THEN out' ELSE returned

\* faulty variant: build() addresses the active column of the open group and
\* fails when the index is out of range
build_FailsOutOfRange ==
    /\ Call("build", None)
    /\ UNCHANGED ivars
    /\ IF GroupOpen /\ ColumnIndexError
       THEN /\ raised' = TRUE
            /\ out' = None
            /\ UNCHANGED returned
            /\ UNCHANGED <<content, current_column_group, current_column>>
       ELSE /\ raised' = FALSE
            /\ IF GroupOpen
               THEN /\ content' = BuildFlush(Val(current_column_group))
                    /\ current_column_group' = None
                    /\ current_column' = None
               ELSE UNCHANGED <<content, current_column_group, current_column>>
            /\ out' = Some([name |-> name,
                            content |-> [editorState |-> content'],
                            metadata |-> [insights |-> insights]])
            /\ returned' = IF keeps THEN out' ELSE returned
    /\ UNCHANGED <<name, insights, idCounter, added>>

(***************************************************************************)
(* build()                                                                 *)
(***************************************************************************)
build ==
    /\ Call("build", None)
    /\ UNCHANGED ivars
    /\ raised' = FALSE
    /\ IF GroupOpen
       THEN /\ content' = BuildFlush(Val(current_column_group))
            /\ current_column_group' = None
            /\ current_column' = None
       ELSE UNCHANGED <<content, current_column_group, current_column>>
    /\ UNCHANGED <<name, insights, idCounter, added>>
    /\ out' = Some(Document')
    /\ returned' = IF keeps THEN out' ELSE returned


(***************************************************************************)
(* The query builder: InsightBuilderBase, InsightBuilder, InsightBuilderV3 *)
(* (src/polyteia_sdk_python/insight_factory.py).                           *)
(***************************************************************************)
VALID_FILTER_OPERATORS ==
    {"equals", "not_equals", "like", "not_like", "starts_with", "ends_with",
     "contains", "not_contains", "is_null", "is_not_null", "greater_than",
     "less_than", "greater_or_equals", "less_or_equals", "is_null_or_empty",
     "is_not_null_or_empty", "is_true", "is_false"}

VALID_MODES == {"queryBuilder", "sqlEditor"}

\* the dataclasses and their defaults
DatasetDef(datasetId, join) == [datasetId |-> datasetId, join |-> join]

SelectDef(id, datasetId, columnId, aggregate, label) ==
    [id |-> id, datasetId |-> datasetId, columnId |-> columnId,
     aggregate |-> aggregate, label |-> label]

WhereDef(id, column, operator, value) ==
    [id |-> id, column |-> column, operator |-> operator, value |-> value]

OrderByDef(id, column, direction) ==
    [id |-> id, column |-> column, direction |-> direction]

QueryBuilderDefV3 ==
    [version |-> 2, datasets |-> <<>>, select |-> <<>>, where |-> <<>>,
     orderBy |-> <<>>, limit |-> None]

QueryDefV3 ==
    [version |-> 3, mode |-> "queryBuilder",
     sqlEditor |-> [sqlString |-> ""],
     queryBuilder |-> QueryBuilderDefV3]

InsightDefV3 ==
    [id |-> None, solutionId |-> "", name |-> "", slug |-> "",
     description |-> "", query |-> QueryDefV3, config |-> None]

PivotDef == [enabled |-> FALSE, columns |-> <<>>, rows |-> <<>>, values |-> <<>>]

VariableDef(id, vname, label) ==
    [id |-> id, name |-> vname, label |-> label, type |-> "text",
     inputOption |-> "dropdown", dropdownOption |-> "single",
     availableValuesSource |-> "custom", customValues |-> "",
     defaultValue |-> None, alwaysRequired |-> TRUE]

SqlEditorDef == [sqlString |-> "", variables |-> <<>>]

QueryBuilderDef ==
    [version |-> 3, datasets |-> <<>>, select |-> <<>>, where |-> <<>>,
     orderBy |-> <<>>, pivot |-> PivotDef, limit |-> None]

QueryDef ==
    [version |-> 4, mode |-> "queryBuilder",
     sqlEditor |-> SqlEditorDef,
     queryBuilder |-> QueryBuilderDef]

InsightDef ==
    [id |-> None, solutionId |-> "", name |-> "", slug |-> "",
     description |-> "", query |-> QueryDef, config |-> None]

\* faulty variant: InsightBuilderV3 starts from the dataclasses of the
\* current generation
InsightInit_AlwaysCurrent(g) ==
    /\ gen = g
    /\ insight = InsightDef
    /\ joinOnLists = <<>>

\* InsightBuilder.__init__ and InsightBuilderV3.__init__
InsightInit(g) ==
    /\ gen = g
    /\ insight = IF g = "v3" THEN InsightDefV3 ELSE InsightDef
    /\ joinOnLists = <<>>

\* faulty variant: the same token on every call
Uuid_Constant(n) == "uuid-1"

\* str(uuid.uuid4()): a fresh token per call
Uuid(n) == "uuid-" \o ToString(n + 1)

(***************************************************************************)
(* Inputs of the query builder.                                            *)
(***************************************************************************)
Modes == {"queryBuilder", "sqlEditor", "bogus"}
DatasetIds == {"ds1", "ds2"}
Limits == {-1, 0, 100}
SqlStrings == {"SELECT 1"}

\* operators tried where add_filter is one operation among many
FewOperators == {"equals", "not_a_real_operator"}
\* operators tried where add_filter is looked at alone
AllOperators == VALID_FILTER_OPERATORS \cup {"not_a_real_operator", "EQUALS"}

SelectArgs ==
    { [column_id |-> "col_a", dataset_id |-> None, aggregate |-> None,
       label |-> None, id |-> None],
      [column_id |-> "revenue", dataset_id |-> Some("ds2"),
       aggregate |-> Some("sum"), label |-> Some("Total Revenue"),
       id |-> Some("sel_x")] }

XAxisColumn == SelectDef("x", "ds1", "region", None, "Region")
YAxisColumn == SelectDef("y", "ds1", "revenue", Some("sum"), "Total Revenue")

PercentColumn == SelectDef("p", "ds1", "share", None, "Anteil %")
GeometryColumn == SelectDef("g", "ds1", "geom", None, "Geometry")

Configs == { [type |-> "custom"] }

\* the dataset_id argument of add_filter and add_order_by: left out, an id,
\* the empty string
DatasetArgs == {None, Some("ds2"), Some("")}

\* pre-built definitions handed to add_select_defs and add_filter_defs
PrebuiltSelects == <<SelectDef("pre_s", "ds9", "col_p", None, "Col P")>>
PrebuiltFilters ==
    <<WhereDef("pre_w", [datasetId |-> "ds9", columnId |-> "col_p",
                         aggregate |-> None], "equals", "x"),
      WhereDef("pre_bad", [datasetId |-> "ds9", columnId |-> "col_q",
                           aggregate |-> None], "not_a_real_operator", "y")>>

\* a call on the query builder
InsightCall(opname, a) ==
    /\ Call(opname, a)
    /\ UNCHANGED <<content, name, insights, current_column_group,
                   current_column, added, returned>>

(***************************************************************************)
(* InsightBuilderBase: scalar setters                                      *)
(***************************************************************************)
insight_set_solution_id(v) ==
    /\ InsightCall("set_solution_id", Some(v))
    /\ raised' = FALSE
    /\ insight' = [insight EXCEPT !.solutionId = v]
    /\ out' = None
    /\ UNCHANGED <<gen, idCounter, joinOnLists>>

insight_set_name(v) ==
    /\ InsightCall("set_name", Some(v))
    /\ raised' = FALSE
    /\ insight' = [insight EXCEPT !.name = v]
    /\ out' = None
    /\ UNCHANGED <<gen, idCounter, joinOnLists>>

insight_set_slug(v) ==
    /\ InsightCall("set_slug", Some(v))
    /\ raised' = FALSE
    /\ insight' = [insight EXCEPT !.slug = v]
    /\ out' = None
    /\ UNCHANGED <<gen, idCounter, joinOnLists>>

insight_set_description(v) ==
    /\ InsightCall("set_description", Some(v))
    /\ raised' = FALSE
    /\ insight' = [insight EXCEPT !.description = v]
    /\ out' = None
    /\ UNCHANGED <<gen, idCounter, joinOnLists>>

(***************************************************************************)
(* set_mode(mode)                                                          *)
(***************************************************************************)
\* faulty variant: set_mode takes any mode
ModeIsValid_Any(mode) == TRUE

\* `mode not in VALID_MODES`, negated
ModeIsValid(mode) == mode \in VALID_MODES

\* faulty variant: set_mode empties the query body of the other mode
insight_set_mode_ClearsOther(mode) ==
    /\ InsightCall("set_mode", Some(mode))
    /\ IF ~ModeIsValid(mode)
       THEN /\ raised' = TRUE
            /\ UNCHANGED insight
       ELSE /\ raised' = FALSE
            /\ insight' = IF mode = "queryBuilder"
                          THEN [insight EXCEPT !.query.mode = mode,
                                               !.query.sqlEditor.sqlString = ""]
                          ELSE [insight EXCEPT !.query.mode = mode,
                                               !.query.queryBuilder.datasets = <<>>]
    /\ out' = None
    /\ UNCHANGED <<gen, idCounter, joinOnLists>>

insight_set_mode(mode) ==
    /\ InsightCall("set_mode", Some(mode))
    /\ IF ~ModeIsValid(mode)
       THEN /\ raised' = TRUE
            /\ UNCHANGED insight
       ELSE /\ raised' = FALSE
            /\ insight' = [insight EXCEPT !.query.mode = mode]
    /\ out' = None
    /\ UNCHANGED <<gen, idCounter, joinOnLists>>

(***************************************************************************)
(* add_dataset(dataset_id, join_type="inner", join_on=None)                *)
(***************************************************************************)
\* faulty variant: the default list is made once and handed to every dataset
NewJoinOn_SharedDefault(allocated) == 1

\* `join_on or []` with join_on=None: the list display makes a new list object
\* each time it is evaluated; objects are numbered in the order they are made
NewJoinOn(allocated) == allocated + 1

insight_add_dataset(dataset_id) ==
    /\ InsightCall("add_dataset", Some(dataset_id))
    /\ raised' = FALSE
    /\ insight' = [insight EXCEPT !.query.queryBuilder.datasets =
                      Append(@, DatasetDef(dataset_id,
                                           [type |-> "inner", on |-> <<>>]))]
    /\ joinOnLists' = Append(joinOnLists, NewJoinOn(Len(joinOnLists)))
    /\ out' = None
    /\ UNCHANGED <<gen, idCounter>>

\* faulty variant: the default is the dataset added last
ResolveDataset_Last(dataset_id) ==
    IF ~IsNone(dataset_id) /\ Val(dataset_id) # ""
    THEN Val(dataset_id)
    ELSE IF insight.query.queryBuilder.datasets # <<>>
         THEN Last(insight.query.queryBuilder.datasets).datasetId
         ELSE ""

\* `dataset_id or (datasets[0].datasetId if datasets else "")`
ResolveDataset(dataset_id) ==
    IF ~IsNone(dataset_id) /\ Val(dataset_id) # ""
    THEN Val(dataset_id)
    ELSE IF insight.query.queryBuilder.datasets # <<>>
         THEN insight.query.queryBuilder.datasets[1].datasetId
         ELSE ""

\* `x or default` for an Optional[str] argument
OrDefault(x, default) ==
    IF ~IsNone(x) /\ Val(x) # "" THEN Val(x) ELSE default

(***************************************************************************)
(* add_select(column_id, dataset_id, aggregate, label, id)                 *)
(***************************************************************************)
insight_add_select(a) ==
    /\ InsightCall("add_select", Some(a))
    /\ raised' = FALSE
    /\ insight' = [insight EXCEPT !.query.queryBuilder.select =
                      Append(@, SelectDef(OrDefault(a.id, Uuid(idCounter)),
                                          ResolveDataset(a.dataset_id),
                                          a.column_id,
                                          a.aggregate,
                                          OrDefault(a.label, a.column_id)))]
    /\ idCounter' = IF IsNone(a.id) \/ Val(a.id) = ""
                    THEN idCounter + 1 ELSE idCounter
    /\ out' = None
    /\ UNCHANGED <<gen, joinOnLists>>

\* faulty variant: add_filter takes any operator
OperatorIsValid_Any(operator) == TRUE

\* `operator not in VALID_FILTER_OPERATORS`, negated
OperatorIsValid(operator) == operator \in VALID_FILTER_OPERATORS

(***************************************************************************)
(* add_filter(column_id, operator, value, dataset_id)                      *)
(***************************************************************************)
insight_add_filter(column_id, operator, value, dataset_id) ==
    /\ InsightCall("add_filter",
                   Some([column_id |-> column_id, operator |-> operator,
                         value |-> value, dataset_id |-> dataset_id]))
    /\ IF ~OperatorIsValid(operator)
       THEN /\ raised' = TRUE
            /\ UNCHANGED <<insight, idCounter>>
       ELSE /\ raised' = FALSE
            /\ insight' = [insight EXCEPT !.query.queryBuilder.where =
                  Append(@, WhereDef(Uuid(idCounter),
                                     [datasetId |-> ResolveDataset(dataset_id),
                                      columnId |-> column_id,
                                      aggregate |-> None],
                                     operator, value))]
            /\ idCounter' = idCounter + 1
    /\ out' = None
    /\ UNCHANGED <<gen, joinOnLists>>

(***************************************************************************)
(* add_order_by(column_id, dataset_id, aggregate, direction)               *)
(***************************************************************************)
insight_add_order_by(column_id, dataset_id, aggregate, direction) ==
    /\ InsightCall("add_order_by",
                   Some([column_id |-> column_id, dataset_id |-> dataset_id,
                         aggregate |-> aggregate, direction |-> direction]))
    /\ raised' = FALSE
    /\ insight' = [insight EXCEPT !.query.queryBuilder.orderBy =
          Append(@, OrderByDef(Uuid(idCounter),
                               [datasetId |-> ResolveDataset(dataset_id),
                                columnId |-> column_id,
                                aggregate |-> aggregate],
                               direction))]
    /\ idCounter' = idCounter + 1
    /\ out' = None
    /\ UNCHANGED <<gen, joinOnLists>>

(***************************************************************************)
(* set_limit(limit)                                                        *)
(***************************************************************************)
\* faulty variant: set_limit takes zero for a negative limit
LimitIsNegative_OrZero(limit) == limit <= 0

\* `limit < 0`
LimitIsNegative(limit) == limit < 0

insight_set_limit(limit) ==
    /\ InsightCall("set_limit", Some(limit))
    /\ IF LimitIsNegative(limit)
       THEN /\ raised' = TRUE
            /\ UNCHANGED insight
       ELSE /\ raised' = FALSE
            /\ insight' = [insight EXCEPT !.query.queryBuilder.limit = Some(limit)]
    /\ out' = None
    /\ UNCHANGED <<gen, idCounter, joinOnLists>>

(***************************************************************************)
(* add_filter_defs(filters), add_select_defs(selects)                      *)
(***************************************************************************)
\* faulty variant: add_filter_defs checks the operator of each predicate as
\* add_filter does
insight_add_filter_defs_Validating(filters) ==
    /\ InsightCall("add_filter_defs", Some(filters))
    /\ IF \E k \in 1..Len(filters) : ~OperatorIsValid(filters[k].operator)
       THEN /\ raised' = TRUE
            /\ UNCHANGED insight
       ELSE /\ raised' = FALSE
            /\ insight' = [insight EXCEPT !.query.queryBuilder.where = @ \o filters]
    /\ out' = None
    /\ UNCHANGED <<gen, idCounter, joinOnLists>>

insight_add_filter_defs(filters) ==
    /\ InsightCall("add_filter_defs", Some(filters))
    /\ raised' = FALSE
    /\ insight' = [insight EXCEPT !.query.queryBuilder.where = @ \o filters]
    /\ out' = None
    /\ UNCHANGED <<gen, idCounter, joinOnLists>>

\* faulty variant: add_select_defs assigns the list instead of extending it
insight_add_select_defs_Replacing(selects) ==
    /\ InsightCall("add_select_defs", Some(selects))
    /\ raised' = FALSE
    /\ insight' = [insight EXCEPT !.query.queryBuilder.select = selects]
    /\ out' = None
    /\ UNCHANGED <<gen, idCounter, joinOnLists>>

insight_add_select_defs(selects) ==
    /\ InsightCall("add_select_defs", Some(selects))
    /\ raised' = FALSE
    /\ insight' = [insight EXCEPT !.query.queryBuilder.select = @ \o selects]
    /\ out' = None
    /\ UNCHANGED <<gen, idCounter, joinOnLists>>

(***************************************************************************)
(* set_config(cfg)                                                         *)
(***************************************************************************)
insight_set_config(cfg) ==
    /\ InsightCall("set_config", Some(cfg))
    /\ raised' = FALSE
    /\ insight' = [insight EXCEPT !.config = Some(cfg)]
    /\ out' = None
    /\ UNCHANGED <<gen, idCounter, joinOnLists>>

\* the column reference a chart config holds for a SelectDef
ChartColumn(col, type) ==
    [id |-> col.id, key |-> col.columnId, label |-> col.label, type |-> type]

\* the config set_bar_chart builds with its default options
BarChartConfig(x_axis_column, y_axis_column) ==
    [type |-> "bar-chart", barGroupType |-> "group", barLayout |-> "vertical",
     showLabel |-> TRUE, title |-> "", subtitle |-> "",
     xAxis |-> [column |-> ChartColumn(x_axis_column, "text"),
                ticksLayout |-> "normal"],
     yAxis |-> [column |-> ChartColumn(y_axis_column, "number")],
     metric |-> [column |-> None],
     filters |-> <<>>]

(***************************************************************************)
(* set_bar_chart(x_axis_column, y_axis_column)                             *)
(***************************************************************************)
insight_set_bar_chart(x_axis_column, y_axis_column) ==
    /\ InsightCall("set_bar_chart", Some(<<x_axis_column, y_axis_column>>))
    /\ raised' = FALSE
    /\ insight' = [insight EXCEPT !.config =
                      Some(BarChartConfig(x_axis_column, y_axis_column))]
    /\ out' = None
    /\ UNCHANGED <<gen, idCounter, joinOnLists>>

\* `"%" in col.label or "anzahl" in col.label.lower()`, over the labels used
LabelLooksNumeric(label) == label \in {"Anteil %", "Anzahl Kunden"}

\* the config set_table builds with its default options
TableConfig(columns) ==
    [type |-> "table", subtitle |-> "", title |-> "",
     series |-> [i \in 1..Len(columns) |->
                   [column |-> ChartColumn(columns[i],
                                           IF LabelLooksNumeric(columns[i].label)
                                           THEN "number" ELSE "text"),
                    id |-> "col_" \o ToString(i - 1),
                    sortable |-> TRUE,
                    title |-> [text |-> ""]]],
     filters |-> <<>>]

\* faulty variant: set_table keeps the old config when there is one
insight_set_table_KeepsOld(columns) ==
    /\ InsightCall("set_table", Some(columns))
    /\ raised' = FALSE
    /\ insight' = [insight EXCEPT !.config =
                      IF IsNone(@) THEN Some(TableConfig(columns)) ELSE @]
    /\ out' = None
    /\ UNCHANGED <<gen, idCounter, joinOnLists>>

(***************************************************************************)
(* set_table(columns)                                                      *)
(***************************************************************************)
insight_set_table(columns) ==
    /\ InsightCall("set_table", Some(columns))
    /\ raised' = FALSE
    /\ insight' = [insight EXCEPT !.config = Some(TableConfig(columns))]
    /\ out' = None
    /\ UNCHANGED <<gen, idCounter, joinOnLists>>

\* the config set_big_number builds with its default options
BigNumberConfig(measure_column) ==
    [type |-> "big-number", title |-> "", subtitle |-> "",
     measure |-> [column |-> ChartColumn(measure_column, "number"),
                  aggregate |-> "sum"],
     filters |-> <<>>]

(***************************************************************************)
(* set_big_number(measure_column)                                          *)
(***************************************************************************)
insight_set_big_number(measure_column) ==
    /\ InsightCall("set_big_number", Some(<<measure_column>>))
    /\ raised' = FALSE
    /\ insight' = [insight EXCEPT !.config =
                      Some(BigNumberConfig(measure_column))]
    /\ out' = None
    /\ UNCHANGED <<gen, idCounter, joinOnLists>>

\* the config set_line_chart builds with its default options
LineChartConfig(x_axis_column, y_axis_column) ==
    [type |-> "line-chart", lineInterpolation |-> "linear",
     showLabel |-> TRUE, title |-> "", subtitle |-> "", stack |-> "none",
     xAxis |-> [column |-> ChartColumn(x_axis_column, "text"),
                ticksLayout |-> "normal"],
     yAxis |-> [column |-> ChartColumn(y_axis_column, "number")],
     metric |-> [column |-> None],
     filters |-> <<>>]

(***************************************************************************)
(* set_line_chart(x_axis_column, y_axis_column)                            *)
(***************************************************************************)
insight_set_line_chart(x_axis_column, y_axis_column) ==
    /\ InsightCall("set_line_chart", Some(<<x_axis_column, y_axis_column>>))
    /\ raised' = FALSE
    /\ insight' = [insight EXCEPT !.config =
                      Some(LineChartConfig(x_axis_column, y_axis_column))]
    /\ out' = None
    /\ UNCHANGED <<gen, idCounter, joinOnLists>>

\* the config set_pie_chart builds with its default options
PieChartConfig(label_column, measure_column) ==
    [type |-> "pie-chart", appearance |-> "pie", title |-> "", subtitle |-> "",
     label |-> [column |-> ChartColumn(label_column, "text")],
     measure |-> [column |-> ChartColumn(measure_column, "number")],
     filters |-> <<>>]

(***************************************************************************)
(* set_pie_chart(label_column, measure_column)                             *)
(***************************************************************************)
insight_set_pie_chart(label_column, measure_column) ==
    /\ InsightCall("set_pie_chart", Some(<<label_column, measure_column>>))
    /\ raised' = FALSE
    /\ insight' = [insight EXCEPT !.config =
                      Some(PieChartConfig(label_column, measure_column))]
    /\ out' = None
    /\ UNCHANGED <<gen, idCounter, joinOnLists>>

\* str(uuid.uuid4()).replace("-", ""): a fresh token per call
UuidHex(n) == "uuidhex-" \o ToString(n + 1)

\* the layer set_map_chart builds with layer_type "choropleth" (its default);
\* labelColumn and valueColumn are keys only when the column is given
MapLayer(geometry_column, label_column, value_column, layerId) ==
    LET base == [type |-> "choropleth", fillStyle |-> "opaque", id |-> layerId,
                 showLabel |-> TRUE, title |-> "",
                 tooltip |-> [fields |-> None],
                 geometryColumn |-> ChartColumn(geometry_column, "text")]
        withLabel == IF IsNone(label_column) THEN base
                     ELSE base @@ [labelColumn |->
                                     ChartColumn(Val(label_column), "text")]
    IN  IF IsNone(value_column) THEN withLabel
        ELSE withLabel @@ [valueColumn |->
                             ChartColumn(Val(value_column), "number")]

\* the config set_map_chart builds with its default options
MapChartConfig(geometry_column, label_column, value_column, layerId) ==
    [type |-> "map-chart", title |-> "", subtitle |-> "",
     backgroundMap |-> "osm", version |-> 2,
     layers |-> <<MapLayer(geometry_column, label_column, value_column,
                           layerId)>>,
     filters |-> <<>>]

(***************************************************************************)
(* set_map_chart(geometry_column, label_column, value_column)              *)
(***************************************************************************)
insight_set_map_chart(geometry_column, label_column, value_column) ==
    /\ InsightCall("set_map_chart",
                   Some(<<geometry_column, label_column, value_column>>))
    /\ raised' = FALSE
    /\ insight' = [insight EXCEPT !.config =
                      Some(MapChartConfig(geometry_column, label_column,
                                          value_column, UuidHex(idCounter)))]
    /\ idCounter' = idCounter + 1
    /\ out' = None
    /\ UNCHANGED <<gen, joinOnLists>>

(***************************************************************************)
(* InsightBuilder.set_sql / InsightBuilderV3.set_sql                       *)
(***************************************************************************)
insight_set_sql(sql) ==
    /\ InsightCall("set_sql", Some(sql))
    /\ raised' = FALSE
    /\ insight' = [insight EXCEPT !.query.sqlEditor.sqlString = sql]
    /\ out' = None
    /\ UNCHANGED <<gen, idCounter, joinOnLists>>

(***************************************************************************)
(* InsightBuilder.add_sql_variable (InsightBuilderV3 has no such method)   *)
(***************************************************************************)
insight_add_sql_variable(id, vname, label) ==
    /\ gen = "current"
    /\ InsightCall("add_sql_variable", Some(id))
    /\ raised' = FALSE
    /\ insight' = [insight EXCEPT !.query.sqlEditor.variables =
                      Append(@, VariableDef(id, vname, label))]
    /\ out' = None
    /\ UNCHANGED <<gen, idCounter, joinOnLists>>

\* the where and orderBy comprehensions of build()
WhereDict(w) ==
    [id |-> w.id, column |-> w.column, operator |-> w.operator, value |-> w.value]

OrderByDict(o) ==
    [id |-> o.id, column |-> o.column, direction |-> o.direction]

\* vars(ds), vars(s): the fields of the dataclass instance
DatasetDict(ds) == [datasetId |-> ds.datasetId, join |-> ds.join]

\* faulty variant: build() resolves an empty dataset reference to the first
\* dataset held by then
SelectDict_ResolvesAtBuild(sel) ==
    [id |-> sel.id,
     datasetId |-> IF sel.datasetId = "" /\ insight.query.queryBuilder.datasets # <<>>
                   THEN insight.query.queryBuilder.datasets[1].datasetId
                   ELSE sel.datasetId,
     columnId |-> sel.columnId,
     aggregate |-> sel.aggregate, label |-> sel.label]

SelectDict(sel) ==
    [id |-> sel.id, datasetId |-> sel.datasetId, columnId |-> sel.columnId,
     aggregate |-> sel.aggregate, label |-> sel.label]

VariableDict(v) ==
    [id |-> v.id, name |-> v.name, label |-> v.label, type |-> v.type,
     inputOption |-> v.inputOption, dropdownOption |-> v.dropdownOption,
     availableValuesSource |-> v.availableValuesSource,
     customValues |-> v.customValues, defaultValue |-> v.defaultValue,
     alwaysRequired |-> v.alwaysRequired]

Map(Op(_), list) == [i \in 1..Len(list) |-> Op(list[i])]

\* the dict InsightBuilderV3.build() returns
InsightDocumentV3 ==
    LET q == insight.query IN
    [solution_id |-> insight.solutionId,
     name |-> insight.name,
     description |-> insight.description,
     slug |-> insight.slug,
     query |->
        [version |-> q.version,
         mode |-> q.mode,
         sqlEditor |-> q.sqlEditor,
         queryBuilder |->
            [version |-> q.queryBuilder.version,
             datasets |-> Map(DatasetDict, q.queryBuilder.datasets),
             select |-> Map(SelectDict, q.queryBuilder.select),
             where |-> Map(WhereDict, q.queryBuilder.where),
             orderBy |-> Map(OrderByDict, q.queryBuilder.orderBy),
             limit |-> q.queryBuilder.limit]],
     config |-> insight.config]

\* the dict InsightBuilder.build() returns
InsightDocument ==
    LET q == insight.query IN
    [solution_id |-> insight.solutionId,
     name |-> insight.name,
     description |-> insight.description,
     slug |-> insight.slug,
     query |->
        [version |-> q.version,
         mode |-> q.mode,
         sqlEditor |->
            [sqlString |-> q.sqlEditor.sqlString,
             variables |-> Map(VariableDict, q.sqlEditor.variables)],
         queryBuilder |->
            [version |-> q.queryBuilder.version,
             datasets |-> Map(DatasetDict, q.queryBuilder.datasets),
             select |-> Map(SelectDict, q.queryBuilder.select),
             where |-> Map(WhereDict, q.queryBuilder.where),
             orderBy |-> Map(OrderByDict, q.queryBuilder.orderBy),
             pivot |-> [enabled |-> q.queryBuilder.pivot.enabled,
                        columns |-> q.queryBuilder.pivot.columns,
                        rows |-> q.queryBuilder.pivot.rows,
                        values |-> q.queryBuilder.pivot.values],
             limit |-> q.queryBuilder.limit]],
     config |-> insight.config]

\* faulty variant: build() hands the query out and starts a fresh one
insight_build_Consuming ==
    /\ InsightCall("build", None)
    /\ raised' = FALSE
    /\ out' = Some(IF gen = "v3" THEN InsightDocumentV3 ELSE InsightDocument)
    /\ insight' = IF gen = "v3" THEN InsightDefV3 ELSE InsightDef
    /\ UNCHANGED <<gen, idCounter, joinOnLists>>

(***************************************************************************)
(* InsightBuilder.build() / InsightBuilderV3.build()                       *)
(***************************************************************************)
insight_build ==
    /\ InsightCall("build", None)
    /\ raised' = FALSE
    /\ out' = Some(IF gen = "v3" THEN InsightDocumentV3 ELSE InsightDocument)
    /\ UNCHANGED <<gen, insight, idCounter, joinOnLists>>

InsightSpecInit ==
    ReportInit /\ GatewayInit /\ \E g \in {"current", "v3"} : InsightInit(g)

\* the operations of the query builder
NextInsight ==
    \/ Within(MaxInsightCalls) /\ insight_set_solution_id("sol")
    \/ Within(MaxInsightCalls) /\ insight_set_name("insight")
    \/ Within(MaxInsightCalls) /\ insight_set_slug("slug")
    \/ Within(MaxInsightCalls) /\ insight_set_description("text")
    \/ Within(MaxInsightCalls) /\ \E m \in Modes : insight_set_mode(m)
    \/ Within(MaxInsightCalls) /\ \E q \in SqlStrings : insight_set_sql(q)
    \/ Within(MaxInsightCalls) /\ insight_add_sql_variable("v1", "var", "Var")
    \/ Within(MaxInsightCalls) /\ \E d \in DatasetIds : insight_add_dataset(d)
    \/ Within(MaxInsightCalls) /\ \E a \in SelectArgs : insight_add_select(a)
    \/ Within(MaxInsightCalls) /\ \E o \in FewOperators :
                                     insight_add_filter("region", o, "EU", None)
    \/ Within(MaxInsightCalls) /\ insight_add_order_by("col_a", None, None, "asc")
    \/ Within(MaxInsightCalls) /\ \E n \in Limits : insight_set_limit(n)
    \/ Within(MaxInsightCalls) /\ \E c \in Configs : insight_set_config(c)
    \/ Within(MaxInsightCalls) /\ insight_set_bar_chart(XAxisColumn, YAxisColumn)
    \/ Within(MaxInsightCalls) /\ insight_build

SpecInsight == InsightSpecInit /\ [][NextInsight]_vars

\* add_filter with every operator, valid or not
NextFilters ==
    \/ Within(MaxFilterCalls) /\ \E d \in DatasetIds : insight_add_dataset(d)
    \/ Within(MaxFilterCalls) /\ \E o \in AllOperators :
                                    insight_add_filter("region", o, "EU", None)
    \/ Within(MaxFilterCalls) /\ insight_build

SpecFilters == InsightSpecInit /\ [][NextFilters]_vars

\* the list-building operations, with and without an explicit dataset
NextQuery ==
    \/ Within(MaxQueryCalls) /\ \E d \in DatasetIds : insight_add_dataset(d)
    \/ Within(MaxQueryCalls) /\ \E a \in SelectArgs : insight_add_select(a)
    \/ Within(MaxQueryCalls) /\ \E d \in DatasetArgs :
                                   insight_add_filter("region", "equals", "EU", d)
    \/ Within(MaxQueryCalls) /\ \E d \in DatasetArgs :
                                   insight_add_order_by("col_a", d, None, "asc")
    \/ Within(MaxQueryCalls) /\ insight_add_select_defs(PrebuiltSelects)
    \/ Within(MaxQueryCalls) /\ insight_add_filter_defs(PrebuiltFilters)
    \/ Within(MaxQueryCalls) /\ insight_add_sql_variable("v1", "var", "Var")
    \/ Within(MaxQueryCalls) /\ insight_build

SpecQuery == InsightSpecInit /\ [][NextQuery]_vars

\* the config-setting operations, among operations on the query
NextCharts ==
    \/ Within(MaxChartCalls) /\ \E c \in Configs : insight_set_config(c)
    \/ Within(MaxChartCalls) /\ insight_set_table(<<XAxisColumn, PercentColumn>>)
    \/ Within(MaxChartCalls) /\ insight_set_big_number(YAxisColumn)
    \/ Within(MaxChartCalls) /\ insight_set_bar_chart(XAxisColumn, YAxisColumn)
    \/ Within(MaxChartCalls) /\ insight_set_line_chart(XAxisColumn, YAxisColumn)
    \/ Within(MaxChartCalls) /\ insight_set_pie_chart(XAxisColumn, YAxisColumn)
    \/ Within(MaxChartCalls) /\ \E v \in {None, Some(YAxisColumn)} :
                                   insight_set_map_chart(GeometryColumn, None, v)
    \/ Within(MaxChartCalls) /\ \E m \in Modes : insight_set_mode(m)
    \/ Within(MaxChartCalls) /\ \E q \in SqlStrings : insight_set_sql(q)
    \/ Within(MaxChartCalls) /\ \E d \in DatasetIds : insight_add_dataset(d)
    \/ Within(MaxChartCalls) /\ \E a \in SelectArgs : insight_add_select(a)
    \/ Within(MaxChartCalls) /\ \E n \in Limits : insight_set_limit(n)
    \/ Within(MaxChartCalls) /\ insight_build

SpecCharts == InsightSpecInit /\ [][NextCharts]_vars

(***************************************************************************)
(* The legacy query builder: gOS_api_sdk/insight_factory.py, class         *)
(* InsightBuilderV3.  It keeps its state in the same variables; gen is     *)
(* "gos".                                                                  *)
(***************************************************************************)
LegacyQueryBuilderDef ==
    [version |-> 2, datasets |-> <<>>, select |-> <<>>, where |-> <<>>,
     orderBy |-> <<>>, limit |-> None]

LegacyQueryDef ==
    [version |-> 3, mode |-> "queryBuilder",
     sqlEditor |-> [sqlString |-> ""],
     queryBuilder |-> LegacyQueryBuilderDef]

LegacyInsightDef ==
    [id |-> None, solutionId |-> "", name |-> "", description |-> "",
     query |-> LegacyQueryDef, config |-> None]

\* InsightBuilderV3.__init__
LegacyInit ==
    /\ gen = "gos"
    /\ insight = LegacyInsightDef
    /\ joinOnLists = <<>>

legacy_set_solution_id(solution_id) ==
    /\ InsightCall("set_solution_id", Some(solution_id))
    /\ raised' = FALSE
    /\ insight' = [insight EXCEPT !.solutionId = solution_id]
    /\ out' = None
    /\ UNCHANGED <<gen, idCounter, joinOnLists>>

legacy_set_name(n) ==
    /\ InsightCall("set_name", Some(n))
    /\ raised' = FALSE
    /\ insight' = [insight EXCEPT !.name = n]
    /\ out' = None
    /\ UNCHANGED <<gen, idCounter, joinOnLists>>

legacy_set_description(desc) ==
    /\ InsightCall("set_description", Some(desc))
    /\ raised' = FALSE
    /\ insight' = [insight EXCEPT !.description = desc]
    /\ out' = None
    /\ UNCHANGED <<gen, idCounter, joinOnLists>>

\* set_mode assigns the mode without looking at it
legacy_set_mode(mode) ==
    /\ InsightCall("set_mode", Some(mode))
    /\ raised' = FALSE
    /\ insight' = [insight EXCEPT !.query.mode = mode]
    /\ out' = None
    /\ UNCHANGED <<gen, idCounter, joinOnLists>>

legacy_set_sql(sql) ==
    /\ InsightCall("set_sql", Some(sql))
    /\ raised' = FALSE
    /\ insight' = [insight EXCEPT !.query.sqlEditor.sqlString = sql]
    /\ out' = None
    /\ UNCHANGED <<gen, idCounter, joinOnLists>>

legacy_add_dataset(dataset_id) ==
    /\ InsightCall("add_dataset", Some(dataset_id))
    /\ raised' = FALSE
    /\ insight' = [insight EXCEPT !.query.queryBuilder.datasets =
                      Append(@, DatasetDef(dataset_id,
                                           [type |-> "inner", on |-> <<>>]))]
    /\ joinOnLists' = Append(joinOnLists, NewJoinOn(Len(joinOnLists)))
    /\ out' = None
    /\ UNCHANGED <<gen, idCounter>>

\* `dataset_id or (datasets[0].datasetId if datasets else "")`
LegacyResolveDataset(dataset_id) ==
    IF ~IsNone(dataset_id) /\ Val(dataset_id) # ""
    THEN Val(dataset_id)
    ELSE IF insight.query.queryBuilder.datasets # <<>>
         THEN insight.query.queryBuilder.datasets[1].datasetId
         ELSE ""

\* add_select(column_id, dataset_id, aggregate, label): the id is always a
\* fresh uuid
legacy_add_select(a) ==
    /\ InsightCall("add_select", Some(a))
    /\ raised' = FALSE
    /\ insight' = [insight EXCEPT !.query.queryBuilder.select =
                      Append(@, SelectDef(Uuid(idCounter),
                                          LegacyResolveDataset(a.dataset_id),
                                          a.column_id,
                                          a.aggregate,
                                          OrDefault(a.label, a.column_id)))]
    /\ idCounter' = idCounter + 1
    /\ out' = None
    /\ UNCHANGED <<gen, joinOnLists>>

\* add_filter stores the operator without looking at it
legacy_add_filter(column_id, operator, value, dataset_id) ==
    /\ InsightCall("add_filter",
                   Some([column_id |-> column_id, operator |-> operator,
                         value |-> value, dataset_id |-> dataset_id]))
    /\ raised' = FALSE
    /\ insight' = [insight EXCEPT !.query.queryBuilder.where =
          Append(@, WhereDef(Uuid(idCounter),
                             [datasetId |-> LegacyResolveDataset(dataset_id),
                              columnId |-> column_id,
                              aggregate |-> None],
                             operator, value))]
    /\ idCounter' = idCounter + 1
    /\ out' = None
    /\ UNCHANGED <<gen, joinOnLists>>

legacy_add_order_by(column_id, dataset_id, aggregate, direction) ==
    /\ InsightCall("add_order_by",
                   Some([column_id |-> column_id, dataset_id |-> dataset_id,
                         aggregate |-> aggregate, direction |-> direction]))
    /\ raised' = FALSE
    /\ insight' = [insight EXCEPT !.query.queryBuilder.orderBy =
          Append(@, OrderByDef(Uuid(idCounter),
                               [datasetId |-> LegacyResolveDataset(dataset_id),
                                columnId |-> column_id,
                                aggregate |-> aggregate],
                               direction))]
    /\ idCounter' = idCounter + 1
    /\ out' = None
    /\ UNCHANGED <<gen, joinOnLists>>

legacy_add_filter_defs(filters) ==
    /\ InsightCall("add_filter_defs", Some(filters))
    /\ raised' = FALSE
    /\ insight' = [insight EXCEPT !.query.queryBuilder.where = @ \o filters]
    /\ out' = None
    /\ UNCHANGED <<gen, idCounter, joinOnLists>>

legacy_add_select_defs(selects) ==
    /\ InsightCall("add_select_defs", Some(selects))
    /\ raised' = FALSE
    /\ insight' = [insight EXCEPT !.query.queryBuilder.select = @ \o selects]
    /\ out' = None
    /\ UNCHANGED <<gen, idCounter, joinOnLists>>

\* set_limit assigns the limit without looking at it
legacy_set_limit(limit) ==
    /\ InsightCall("set_limit", Some(limit))
    /\ raised' = FALSE
    /\ insight' = [insight EXCEPT !.query.queryBuilder.limit = Some(limit)]
    /\ out' = None
    /\ UNCHANGED <<gen, idCounter, joinOnLists>>

legacy_set_config(cfg) ==
    /\ InsightCall("set_config", Some(cfg))
    /\ raised' = FALSE
    /\ insight' = [insight EXCEPT !.config = Some(cfg)]
    /\ out' = None
    /\ UNCHANGED <<gen, idCounter, joinOnLists>>

\* the chart configs, with the default options of each helper
LegacyBarChartConfig(x_axis_column, y_axis_column) ==
    [type |-> "bar-chart", barGroupType |-> "group", barLayout |-> "vertical",
     showLabel |-> TRUE, title |-> "", subtitle |-> "",
     xAxis |-> [column |-> ChartColumn(x_axis_column, "text"),
                ticksLayout |-> "normal"],
     yAxis |-> [column |-> ChartColumn(y_axis_column, "number")],
     metric |-> [column |-> None],
     filters |-> <<>>]

LegacyLineChartConfig(x_axis_column, y_axis_column) ==
    [type |-> "line-chart", interpolation |-> "linear", showLabel |-> TRUE,
     title |-> "", subtitle |-> "",
     xAxis |-> [column |-> ChartColumn(x_axis_column, "text")],
     yAxis |-> [column |-> ChartColumn(y_axis_column, "number")],
     filters |-> <<>>]

LegacyPieChartConfig(label_column, value_column) ==
    [type |-> "pie-chart", appearance |-> "pie", showLabel |-> TRUE,
     title |-> "", subtitle |-> "",
     label |-> [column |-> ChartColumn(label_column, "text")],
     value |-> [column |-> ChartColumn(value_column, "number")],
     filters |-> <<>>]

\* the table column is named by the label of the SelectDef: id, key and label
LegacyTableConfig(columns) ==
    [type |-> "table", subtitle |-> "", title |-> "",
     series |-> [i \in 1..Len(columns) |->
                   [column |-> [id |-> columns[i].label,
                                key |-> columns[i].label,
                                label |-> columns[i].label,
                                type |-> IF LabelLooksNumeric(columns[i].label)
                                         THEN "number" ELSE "text"],
                    id |-> "col_" \o ToString(i - 1),
                    sortable |-> TRUE,
                    title |-> [text |-> ""]]],
     filters |-> <<>>]

LegacyBigNumberConfig(measure_column) ==
    [type |-> "big-number", title |-> "", subtitle |-> "",
     measure |-> [column |-> ChartColumn(measure_column, "number"),
                  aggregate |-> "sum"],
     filters |-> <<>>]

\* labelColumn and valueColumn are keys only when the column is given
LegacyMapChartConfig(geometry_column, label_column, value_column) ==
    LET base == [type |-> "map-chart", title |-> "", subtitle |-> "",
                 showLabel |-> TRUE,
                 geometryColumn |-> ChartColumn(geometry_column, "text"),
                 filters |-> <<>>]
        withLabel == IF IsNone(label_column) THEN base
                     ELSE base @@ [labelColumn |->
                                     ChartColumn(Val(label_column), "text")]
    IN  IF IsNone(value_column) THEN withLabel
        ELSE withLabel @@ [valueColumn |->
                             ChartColumn(Val(value_column), "number")]

\* a chart helper that assigns the config and nothing else
LegacySetChart(opname, a, cfg) ==
    /\ InsightCall(opname, Some(a))
    /\ raised' = FALSE
    /\ insight' = [insight EXCEPT !.config = Some(cfg)]
    /\ out' = None
    /\ UNCHANGED <<gen, idCounter, joinOnLists>>

legacy_set_bar_chart(x_axis_column, y_axis_column) ==
    LegacySetChart("set_bar_chart", <<x_axis_column, y_axis_column>>,
                   LegacyBarChartConfig(x_axis_column, y_axis_column))

legacy_set_line_chart(x_axis_column, y_axis_column) ==
    LegacySetChart("set_line_chart", <<x_axis_column, y_axis_column>>,
                   LegacyLineChartConfig(x_axis_column, y_axis_column))

legacy_set_pie_chart(label_column, value_column) ==
    LegacySetChart("set_pie_chart", <<label_column, value_column>>,
                   LegacyPieChartConfig(label_column, value_column))

legacy_set_table(columns) ==
    LegacySetChart("set_table", columns, LegacyTableConfig(columns))

legacy_set_map_chart(geometry_column, label_column, value_column) ==
    LegacySetChart("set_map_chart",
                   <<geometry_column, label_column, value_column>>,
                   LegacyMapChartConfig(geometry_column, label_column,
                                        value_column))

\* the query set_big_number makes in mode sqlEditor: a new QueryDef that keeps
\* the SQL string and starts with an empty queryBuilder
LegacyBigNumberSqlQuery ==
    [version |-> 3, mode |-> "sqlEditor",
     sqlEditor |-> [sqlString |-> insight.query.sqlEditor.sqlString],
     queryBuilder |-> LegacyQueryBuilderDef]

\* the queryBuilder set_big_number makes in every other mode: the dataset of
\* the measure column, the measure column, and a limit of 1000
LegacyBigNumberQueryBuilder(measure_column) ==
    [version |-> 2,
     datasets |-> <<DatasetDef(measure_column.datasetId,
                               [type |-> "inner", on |-> <<>>])>>,
     select |-> <<measure_column>>,
     where |-> <<>>,
     orderBy |-> <<>>,
     limit |-> Some(1000)]

(***************************************************************************)
(* set_big_number(measure_column): sets the config and replaces the query  *)
(* (mode sqlEditor) or its queryBuilder part (any other mode).             *)
(***************************************************************************)
legacy_set_big_number(measure_column) ==
    /\ InsightCall("set_big_number", Some(<<measure_column>>))
    /\ raised' = FALSE
    /\ IF insight.query.mode = "sqlEditor"
       THEN /\ insight' = [insight EXCEPT
                              !.config = Some(LegacyBigNumberConfig(measure_column)),
                              !.query = LegacyBigNumberSqlQuery]
            /\ joinOnLists' = <<>>
       ELSE /\ insight' = [insight EXCEPT
                              !.config = Some(LegacyBigNumberConfig(measure_column)),
                              !.query.queryBuilder =
                                  LegacyBigNumberQueryBuilder(measure_column)]
            /\ joinOnLists' = <<NewJoinOn(Len(joinOnLists))>>
    /\ out' = None
    /\ UNCHANGED <<gen, idCounter>>

\* the dict InsightBuilderV3.build() of gOS_api_sdk returns (no slug)
LegacyInsightDocument ==
    LET q == insight.query IN
    [solution_id |-> insight.solutionId,
     name |-> insight.name,
     description |-> insight.description,
     query |->
        [version |-> q.version,
         mode |-> q.mode,
         sqlEditor |-> q.sqlEditor,
         queryBuilder |->
            [version |-> q.queryBuilder.version,
             datasets |-> Map(DatasetDict, q.queryBuilder.datasets),
             select |-> Map(SelectDict, q.queryBuilder.select),
             where |-> Map(WhereDict, q.queryBuilder.where),
             orderBy |-> Map(OrderByDict, q.queryBuilder.orderBy),
             limit |-> q.queryBuilder.limit]],
     config |-> insight.config]

legacy_build ==
    /\ InsightCall("build", None)
    /\ raised' = FALSE
    /\ out' = Some(LegacyInsightDocument)
    /\ UNCHANGED <<gen, insight, idCounter, joinOnLists>>

LegacySelectArgs ==
    { [column_id |-> "col_a", dataset_id |-> None, aggregate |-> None,
       label |-> None],
      [column_id |-> "revenue", dataset_id |-> Some("ds2"),
       aggregate |-> Some("sum"), label |-> Some("Total Revenue")] }

LegacySpecInit == ReportInit /\ GatewayInit /\ LegacyInit

\* every operation of the legacy class
NextLegacy ==
    \/ Within(MaxLegacyCalls) /\ legacy_set_solution_id("sol")
    \/ Within(MaxLegacyCalls) /\ legacy_set_name("insight")
    \/ Within(MaxLegacyCalls) /\ legacy_set_description("text")
    \/ Within(MaxLegacyCalls) /\ \E m \in Modes : legacy_set_mode(m)
    \/ Within(MaxLegacyCalls) /\ \E q \in SqlStrings : legacy_set_sql(q)
    \/ Within(MaxLegacyCalls) /\ \E d \in DatasetIds : legacy_add_dataset(d)
    \/ Within(MaxLegacyCalls) /\ \E a \in LegacySelectArgs : legacy_add_select(a)
    \/ Within(MaxLegacyCalls) /\ \E o \in FewOperators :
                                    legacy_add_filter("region", o, "EU", None)
    \/ Within(MaxLegacyCalls) /\ legacy_add_order_by("col_a", None, None, "asc")
    \/ Within(MaxLegacyCalls) /\ legacy_add_filter_defs(PrebuiltFilters)
    \/ Within(MaxLegacyCalls) /\ legacy_add_select_defs(PrebuiltSelects)
    \/ Within(MaxLegacyCalls) /\ \E n \in Limits : legacy_set_limit(n)
    \/ Within(MaxLegacyCalls) /\ \E c \in Configs : legacy_set_config(c)
    \/ Within(MaxLegacyCalls) /\ legacy_set_bar_chart(XAxisColumn, YAxisColumn)
    \/ Within(MaxLegacyCalls) /\ legacy_set_line_chart(XAxisColumn, YAxisColumn)
    \/ Within(MaxLegacyCalls) /\ legacy_set_pie_chart(XAxisColumn, YAxisColumn)
    \/ Within(MaxLegacyCalls) /\ legacy_set_table(<<XAxisColumn, PercentColumn>>)
    \/ Within(MaxLegacyCalls) /\ legacy_set_big_number(YAxisColumn)
    \/ Within(MaxLegacyCalls) /\ \E v \in {None, Some(YAxisColumn)} :
                                    legacy_set_map_chart(GeometryColumn, None, v)
    \/ Within(MaxLegacyCalls) /\ legacy_build

SpecLegacy == LegacySpecInit /\ [][NextLegacy]_vars

(***************************************************************************)
(* api_utils.py: create_or_update_insight and the gateway it talks to.     *)
(* An insight of the gateway is [id, name]; a name is the pair the string  *)
(* "<kpi id> - <title>" splits into.                                       *)
(***************************************************************************)
KpiIds == {"kpi_1", "kpi_2"}

\* `insight["data"]["name"].split(" - ")[0]`
KpiIdOf(insightName) == insightName[1]

\* the name in the insight body a caller builds for the KPI
BodyName(kpi_id) == <<kpi_id, "title">>

\* the positions of the insights find_insight_by_kpi_id would match
Matches(kpi_id) ==
    { i \in 1..Len(gateway) : KpiIdOf(gateway[i].name) = kpi_id }

\* find_insight_by_kpi_id returns the first match in listing order
FirstMatch(kpi_id) ==
    CHOOSE i \in Matches(kpi_id) : \A j \in Matches(kpi_id) : i <= j

\* the gateway gives a new insight an id of its own
NewInsightId == Len(gateway) + 1

\* create_insight: the command is sent; the gateway stores the insight when
\* it accepts the command, and handle_api_response raises when it does not
CreateInsight(kpi_id, sentBefore, create_ok) ==
    /\ sent' = Append(sentBefore, [command |-> "create_insight"])
    /\ IF create_ok
       THEN /\ gateway' = Append(gateway, [id |-> NewInsightId,
                                           name |-> BodyName(kpi_id)])
            /\ raised' = FALSE
       ELSE /\ UNCHANGED gateway
            /\ raised' = TRUE

(***************************************************************************)
(* create_or_update_insight(insight_body, solution_id, kpi_id):            *)
(* lookup_ok, update_ok, create_ok say whether the listing and get_insight *)
(* requests, the update_insight request and the create_insight request     *)
(* come back without an error.  The try block holds the lookup AND the     *)
(* update, so `except Exception` is entered when either of them raises.    *)
(***************************************************************************)
create_or_update_insight(kpi_id, lookup_ok, update_ok, create_ok) ==
    /\ op' = "create_or_update_insight"
    /\ prevOp' = op
    /\ arg' = Some([kpi_id |-> kpi_id, lookup_ok |-> lookup_ok,
                    update_ok |-> update_ok, create_ok |-> create_ok])
    /\ calls' = calls + 1
    /\ IF lookup_ok /\ Matches(kpi_id) # {}
       THEN LET update == [command |-> "update_insight",
                           id |-> gateway[FirstMatch(kpi_id)].id]
            IN  IF update_ok
                THEN /\ sent' = <<update>>
                     /\ raised' = FALSE
                     /\ UNCHANGED gateway
                ELSE CreateInsight(kpi_id, <<update>>, create_ok)
       ELSE CreateInsight(kpi_id, <<>>, create_ok)
    /\ out' = None
    /\ UNCHANGED <<content, name, insights, current_column_group,
                   current_column, keeps, returned, idCounter, added, ivars>>

GatewaySpecInit == ReportInit /\ GatewayInit /\ InsightInit("current")

\* create_or_update_insight called again and again, the requests succeeding
\* or failing
NextGateway ==
    Within(MaxApiCalls) /\ \E k \in KpiIds, l, u, c \in BOOLEAN :
                             create_or_update_insight(k, l, u, c)

SpecGateway == GatewaySpecInit /\ [][NextGateway]_vars

(***************************************************************************)
(* Specifications of the ReportBuilder.                                    *)
(***************************************************************************)
Init == ReportInit /\ GatewayInit /\ InsightInit("current")

\* every operation of the class
Next ==
    \/ Within(MaxCalls) /\ \E n \in Names : set_name(n)
    \/ Within(MaxCalls) /\ add_heading
    \/ Within(MaxCalls) /\ add_text
    \/ Within(MaxCalls) /\ add_list
    \/ Within(MaxCalls) /\ add_table
    \/ Within(MaxCalls) /\ \E i \in InsightIds : add_widget(i)
    \/ Within(MaxCalls) /\ add_horizontal_rule
    \/ Within(MaxCalls) /\ add_link
    \/ Within(MaxCalls) /\ add_blockquote
    \/ Within(MaxCalls) /\ add_code
    \/ Within(MaxCalls) /\ add_date
    \/ Within(MaxCalls) /\ add_toggle
    \/ Within(MaxCalls) /\ add_equation
    \/ Within(MaxCalls) /\ \E d \in DatasetIds : add_dataset(d)
    \/ Within(MaxCalls) /\ \E w \in Layouts : start_columns(w)
    \/ Within(MaxCalls) /\ next_column
    \/ Within(MaxCalls) /\ end_columns
    \/ Within(MaxCalls) /\ build

Spec == Init /\ [][Next]_vars

\* the column state machine, with add_text and add_widget as the block-adding
\* operations
NextColumns ==
    \/ Within(MaxColumnCalls) /\ add_text
    \/ Within(MaxColumnCalls) /\ \E i \in InsightIds : add_widget(i)
    \/ Within(MaxColumnCalls) /\ \E w \in Layouts : start_columns(w)
    \/ Within(MaxColumnCalls) /\ next_column
    \/ Within(MaxColumnCalls) /\ end_columns
    \/ Within(MaxColumnCalls) /\ build

SpecColumns == Init /\ [][NextColumns]_vars

\* a ReportBuilder whose caller holds on to the documents build() returns
SnapshotInit == ReportInitKeeping(TRUE) /\ GatewayInit /\ InsightInit("current")

NextSnapshot ==
    \/ Within(MaxSnapshotCalls) /\ add_text
    \/ Within(MaxSnapshotCalls) /\ \E i \in InsightIds : add_widget(i)
    \/ Within(MaxSnapshotCalls) /\ \E w \in Layouts : start_columns(w)
    \/ Within(MaxSnapshotCalls) /\ next_column
    \/ Within(MaxSnapshotCalls) /\ end_columns
    \/ Within(MaxSnapshotCalls) /\ build

SpecSnapshot == SnapshotInit /\ [][NextSnapshot]_vars

\* a ReportBuilder and a query builder used in one run, with the operations
\* that can raise
NextBuilders ==
    \/ Within(MaxBuilderCalls) /\ add_text
    \/ Within(MaxBuilderCalls) /\ \E w \in Layouts : start_columns(w)
    \/ Within(MaxBuilderCalls) /\ next_column
    \/ Within(MaxBuilderCalls) /\ end_columns
    \/ Within(MaxBuilderCalls) /\ build
    \/ Within(MaxBuilderCalls) /\ \E m \in Modes : insight_set_mode(m)
    \/ Within(MaxBuilderCalls) /\ \E n \in Limits : insight_set_limit(n)
    \/ Within(MaxBuilderCalls) /\ \E o \in FewOperators :
                                     insight_add_filter("region", o, "EU", None)
    \/ Within(MaxBuilderCalls) /\ insight_build

SpecBuilders == InsightSpecInit /\ [][NextBuilders]_vars

(***************************************************************************)
(* Claims about the ReportBuilder.                                         *)
(***************************************************************************)
\* the fields of the builder itself
builderState ==
    <<content, name, insights, current_column_group, current_column>>

NoDuplicates(list) ==
    \A i, j \in 1..Len(list) : list[i] = list[j] => i = j

\* C1: next_column() raises when no column group is open, raises when the
\* active column is the last column of the open group (n >= 1 columns), and
\* in every other state of the column state machine (group open at a column
\* k before the last) succeeds and moves the active column from k to k + 1,
\* leaving the group and the content as they were. Where the index has run
\* past the last column (after a call that raised, or a group of no columns)
\* the call raises as well.
C1_NextColumn ==
    [][op' = "next_column" =>
        /\ ~GroupOpen => raised'
        /\ (GroupOpen /\ Len(Columns) >= 1
                /\ Val(current_column) = Len(Columns) - 1) => raised'
        /\ (GroupOpen /\ Val(current_column) >= Len(Columns)) => raised'
        /\ (GroupOpen /\ Val(current_column) < Len(Columns) - 1) =>
              /\ ~raised'
              /\ current_column' = Some(Val(current_column) + 1)
              /\ current_column_group' = current_column_group
              /\ content' = content
    ]_vars

\* C1 witness: next_column raised from the last column of a two-column group
C1_Witness ==
    /\ op = "next_column"
    /\ raised
    /\ GroupOpen
    /\ Len(Columns) = 2
    /\ current_column = Some(2)

\* the widths of the columns of a group, in order
Widths(group) == [i \in 1..Len(group.children) |-> group.children[i].width]

\* C2: a fresh builder has no active group; start_columns(layout) opens a
\* group at column 0 with one (empty) column per width, in the given order;
\* end_columns() and build() on an open group lead to no active group and
\* append that group to the top-level content exactly once; end_columns()
\* with no open group changes nothing.
C2_ColumnStateMachine ==
    /\ [](op = "init" => ~GroupOpen /\ IsNone(current_column))
    /\ [](NoDuplicates([i \in 1..Len(content) |-> content[i].id]))
    /\ [][/\ op' = "start_columns" =>
              /\ GroupOpen'
              /\ current_column' = Some(0)
              /\ Widths(Val(current_column_group')) = Val(arg')
              /\ \A i \in 1..Len(Columns') : Columns'[i].children = <<>>
              /\ content' = content
          /\ (op' \in {"end_columns", "build"} /\ GroupOpen) =>
              /\ ~GroupOpen'
              /\ IsNone(current_column')
              /\ Len(content') = Len(content) + 1
              /\ Front(content') = content
              /\ Last(content').type = "column_group"
              /\ Last(content').id = Val(current_column_group).id
          /\ (op' \in {"end_columns", "build"} /\ ~GroupOpen) =>
              builderState' = builderState
       ]_vars

\* C2 witness: build() closed a group that end_columns() never saw (its
\* columns are still empty)
C2_Witness ==
    /\ op = "build"
    /\ ~GroupOpen
    /\ Len(content) = 1
    /\ content[1].type = "column_group"
    /\ Widths(content[1]) = <<"70%", "30%">>
    /\ content[1].children[1].children = <<>>

BlockAddingOps ==
    {"add_heading", "add_text", "add_list", "add_table", "add_widget",
     "add_horizontal_rule", "add_link", "add_blockquote", "add_code",
     "add_date", "add_toggle", "add_equation"}

\* the type tag of the block each block-adding operation makes
BlockTypeOf(o) ==
    CASE o = "add_heading" -> "h1"
      [] o = "add_text" -> "p"
      [] o = "add_list" -> "list"
      [] o = "add_table" -> "table"
      [] o = "add_widget" -> "widget"
      [] o = "add_horizontal_rule" -> "hr"
      [] o = "add_link" -> "link"
      [] o = "add_blockquote" -> "blockquote"
      [] o = "add_code" -> "code_block"
      [] o = "add_date" -> "date"
      [] o = "add_toggle" -> "toggle"
      [] o = "add_equation" -> "equation"

\* C3: while a column group is open at column k (one of its columns), every
\* block-adding operation appends exactly one block, of its own type, to the
\* end of column k and leaves the top-level content and all other columns
\* unchanged; with no group open it appends exactly one block to the end of
\* the top-level content.
C3_BlocksGoToActiveColumn ==
    [][op' \in BlockAddingOps =>
        /\ (GroupOpen /\ Val(current_column) < Len(Columns)) =>
              LET k == Val(current_column) + 1 IN
              /\ ~raised'
              /\ GroupOpen'
              /\ current_column' = current_column
              /\ content' = content
              /\ Len(Columns') = Len(Columns)
              /\ Len(Columns'[k].children) = Len(Columns[k].children) + 1
              /\ Front(Columns'[k].children) = Columns[k].children
              /\ Last(Columns'[k].children).type = BlockTypeOf(op')
              /\ \A j \in 1..Len(Columns) : j # k => Columns'[j] = Columns[j]
        /\ ~GroupOpen =>
              /\ ~raised'
              /\ Len(content') = Len(content) + 1
              /\ Front(content') = content
              /\ Last(content').type = BlockTypeOf(op')
              /\ ~GroupOpen'
    ]_vars

\* C3 witness: a block was added to the second column of an open group
C3_Witness ==
    /\ op = "add_toggle"
    /\ ~raised
    /\ GroupOpen
    /\ current_column = Some(1)
    /\ Len(Columns[2].children) = 1
    /\ Columns[2].children[1].type = "toggle"
    /\ Columns[1].children = <<>>
    /\ content = <<>>

\* a block without its generated id
WithoutId(b) == [f \in DOMAIN b \ {"id"} |-> b[f]]

\* a top-level block without the generated ids in it
TopWithoutIds(b) ==
    IF b.type = "column_group"
    THEN [type |-> b.type,
          children |->
             [i \in 1..Len(b.children) |->
                [type |-> b.children[i].type,
                 width |-> b.children[i].width,
                 children |->
                    [j \in 1..Len(b.children[i].children) |->
                        WithoutId(b.children[i].children[j])]]]]
    ELSE WithoutId(b)

WithoutIds(blocks) == [i \in 1..Len(blocks) |-> TopWithoutIds(blocks[i])]

\* the content end_columns() leaves behind
ContentAfterEndColumns ==
    IF GroupOpen
    THEN Append(content,
                [Val(current_column_group) EXCEPT !.children =
                    FillEmptyColumns(Columns, BlockId(idCounter))])
    ELSE content

\* C4: build() with a column group still open returns the document that
\* end_columns() followed by build() returns, up to generated block ids:
\* the group is closed and every column that received no block holds one
\* empty paragraph.
C4_BuildClosesLikeEndColumns ==
    [][(op' = "build" /\ GroupOpen) =>
          WithoutIds(Val(out').content.editorState)
              = WithoutIds(ContentAfterEndColumns)
    ]_vars

IsEmptyParagraph(b) ==
    /\ b.type = "p"
    /\ b.children = <<[text |-> ""]>>

\* C5: end_columns() on an open group puts exactly one empty paragraph (type
\* p, one child with empty text) into each column that has no blocks and
\* leaves every other column as it was.
C5_EndColumnsFillsEmptyColumns ==
    [][(op' = "end_columns" /\ GroupOpen) =>
          LET closed == Last(content').children IN
          /\ Len(closed) = Len(Columns)
          /\ \A i \in 1..Len(Columns) :
                IF Columns[i].children = <<>>
                THEN /\ Len(closed[i].children) = 1
                     /\ IsEmptyParagraph(closed[i].children[1])
                     /\ closed[i].width = Columns[i].width
                     /\ closed[i].id = Columns[i].id
                ELSE closed[i] = Columns[i]
    ]_vars

\* C5 witness: start_columns of two widths, then end_columns at once
C5_Witness ==
    /\ op = "end_columns"
    /\ prevOp = "start_columns"
    /\ Len(content) = 1
    /\ Len(content[1].children) = 2
    /\ \A i \in 1..2 :
          /\ Len(content[1].children[i].children) = 1
          /\ IsEmptyParagraph(content[1].children[i].children[1])

\* C6: the insight list of the metadata holds no insight id twice: an id
\* passed to add_widget is appended on its first use only, no other call
\* touches the list, and build() returns the list as it is.
C6_InsightsDeduplicated ==
    /\ [](NoDuplicates(insights))
    /\ [](op = "build" => Val(out).metadata.insights = insights)
    /\ [][IF op' = "add_widget"
          THEN IF \E i \in 1..Len(insights) : insights[i] = Val(arg')
               THEN insights' = insights
               ELSE insights' = Append(insights, Val(arg'))
          ELSE insights' = insights
       ]_vars

\* C6 witness: two widgets of the same insight, one entry in the built list
C6_Witness ==
    /\ op = "build"
    /\ Len(content) = 2
    /\ content[1].type = "widget"
    /\ content[2].type = "widget"
    /\ content[1].widgetData.insightId = "insight_1"
    /\ content[2].widgetData.insightId = "insight_1"
    /\ Val(out).metadata.insights = <<"insight_1">>

\* the ids of the blocks of a column group, column by column
RECURSIVE GroupBlockIds(_, _)
GroupBlockIds(cols, i) ==
    IF i > Len(cols) THEN <<>>
    ELSE [j \in 1..Len(cols[i].children) |-> cols[i].children[j].id]
            \o GroupBlockIds(cols, i + 1)

\* the ids of the blocks of a document, in document order
RECURSIVE DocumentBlockIds(_, _)
DocumentBlockIds(blocks, i) ==
    IF i > Len(blocks) THEN <<>>
    ELSE (IF blocks[i].type = "column_group"
          THEN GroupBlockIds(blocks[i].children, 1)
          ELSE <<blocks[i].id>>)
            \o DocumentBlockIds(blocks, i + 1)

InSeq(x, list) == \E i \in 1..Len(list) : list[i] = x

\* the elements of `list` that are in `keep`, in the order of `list`
RECURSIVE Restrict(_, _)
Restrict(list, keep) ==
    IF list = <<>> THEN <<>>
    ELSE (IF InSeq(list[1], keep) THEN <<list[1]>> ELSE <<>>)
            \o Restrict(Tail(list), keep)

\* C7: every block stored by an earlier successful add_* call is in the
\* document a later build() returns, and in the same relative order.
C7_AppendOnly ==
    op = "build" =>
        Restrict(DocumentBlockIds(Val(out).content.editorState, 1), added)
            = added

\* C9: build() called twice in a row returns equal documents, also when the
\* first of the two calls is made with a column group open.
C9_BuildTwice ==
    [][(op = "build" /\ op' = "build") => out' = out]_vars

\* C9 witness: start_columns, build, build
C9_Witness ==
    /\ calls = 3
    /\ op = "build"
    /\ prevOp = "build"
    /\ Len(content) = 1
    /\ content[1].type = "column_group"
    /\ Len(content[1].children) = 2
    /\ content[1].children[1].children = <<>>

\* C19: ReportBuilder.add_dataset(id) succeeds in every state, registers the
\* id in the dataset metadata (once per id), adds no block, and the id is in
\* the metadata of the next build().
C19_AddDatasetRegisters ==
    /\ [][op' = "add_dataset" => (~raised' /\ content' = content)]_vars
    /\ []((op = "build" /\ prevOp = "add_dataset") =>
            "datasets" \in DOMAIN Val(out).metadata)

(***************************************************************************)
(* Claims about the query builder.                                         *)
(***************************************************************************)
\* C8: build() of InsightBuilder and of InsightBuilderV3 is idempotent and
\* free of side effects: it leaves the whole builder state (metadata, mode,
\* SQL, variables, datasets, select, where, orderBy, pivot, limit, config)
\* unchanged, and two build() calls in a row return equal documents.
C8_InsightBuildPure ==
    /\ [][op' = "build" => insight' = insight /\ gen' = gen]_vars
    /\ [][(op = "build" /\ op' = "build") => out' = out]_vars

\* C8 witness: two build() calls in a row on a builder that holds a filter
C8_Witness ==
    /\ op = "build"
    /\ prevOp = "build"
    /\ Len(insight.query.queryBuilder.where) = 1
    /\ Len(Val(out).query.queryBuilder.where) = 1

\* C10: the fixed set has 18 operator names; add_filter raises for every
\* operator outside it and leaves the where list (and the rest of the query)
\* unchanged; for every operator in it the call succeeds and appends exactly
\* one predicate that carries that operator and value.
C10_AddFilterOperators ==
    /\ [](Cardinality(VALID_FILTER_OPERATORS) = 18)
    /\ [][op' = "add_filter" =>
            LET where == insight.query.queryBuilder.where
                whereAfter == insight'.query.queryBuilder.where
            IN  IF Val(arg').operator \notin VALID_FILTER_OPERATORS
                THEN /\ raised'
                     /\ insight' = insight
                ELSE /\ ~raised'
                     /\ Len(whereAfter) = Len(where) + 1
                     /\ Front(whereAfter) = where
                     /\ Last(whereAfter).operator = Val(arg').operator
                     /\ Last(whereAfter).value = Val(arg').value
                     /\ [insight' EXCEPT !.query.queryBuilder.where = where]
                            = insight
       ]_vars

\* C10 witness: add_filter raised on a builder that holds an accepted filter
C10_Witness ==
    /\ op = "add_filter"
    /\ raised
    /\ Val(arg).operator = "not_a_real_operator"
    /\ Len(insight.query.queryBuilder.where) = 1
    /\ insight.query.queryBuilder.where[1].operator = "is_not_null_or_empty"

\* C11: set_mode(mode) of the polyteia InsightBuilder raises for every mode
\* other than "queryBuilder" and "sqlEditor" and leaves the mode (and the rest
\* of the builder) unchanged; for those two it succeeds and sets the mode;
\* hence the mode held by the builder, and the mode of every built query, is
\* one of the two in every reachable state.
C11_SetMode ==
    /\ [][op' = "set_mode" =>
            IF Val(arg') \notin {"queryBuilder", "sqlEditor"}
            THEN /\ raised'
                 /\ insight' = insight
            ELSE /\ ~raised'
                 /\ insight'.query.mode = Val(arg')
                 /\ [insight' EXCEPT !.query.mode = insight.query.mode]
                        = insight
       ]_vars
    /\ [](insight.query.mode \in {"queryBuilder", "sqlEditor"})
    /\ []((op = "build" /\ ~IsNone(out)) =>
            Val(out).query.mode \in {"queryBuilder", "sqlEditor"})

\* C11 witness: set_mode("bogus") raised on a builder that set_mode had put
\* in mode sqlEditor, and the mode is still sqlEditor
C11_Witness ==
    /\ op = "set_mode"
    /\ prevOp = "set_mode"
    /\ raised
    /\ arg = Some("bogus")
    /\ insight.query.mode = "sqlEditor"

\* C12: set_limit(n) raises for every n < 0 and leaves the limit (and the
\* rest of the builder) unchanged; for every n >= 0, zero included, it
\* succeeds and sets the limit to n; build() reports the limit the builder
\* holds; hence a built limit is null or a non-negative integer.
C12_SetLimit ==
    /\ [][op' = "set_limit" =>
            IF Val(arg') < 0
            THEN /\ raised'
                 /\ insight' = insight
            ELSE /\ ~raised'
                 /\ insight'.query.queryBuilder.limit = Some(Val(arg'))
                 /\ [insight' EXCEPT !.query.queryBuilder.limit =
                                        insight.query.queryBuilder.limit]
                        = insight
       ]_vars
    /\ [][(op = "set_limit" /\ ~raised /\ op' = "build") =>
            Val(out').query.queryBuilder.limit = arg]_vars
    /\ []((op = "build" /\ ~IsNone(out)) =>
            LET limit == Val(out).query.queryBuilder.limit
            IN  /\ limit = insight.query.queryBuilder.limit
                /\ IsNone(limit) \/ Val(limit) >= 0)

\* C12 witness: set_limit(-1) raised on a builder whose limit set_limit(0) had
\* set, and the limit is still 0
C12_Witness ==
    /\ op = "set_limit"
    /\ prevOp = "set_limit"
    /\ raised
    /\ arg = Some(-1)
    /\ insight.query.queryBuilder.limit = Some(0)

\* the operations that take a dataset_id and make one element from it
DatasetTakingOps == {"add_select", "add_filter", "add_order_by"}

\* the dataset reference of the element the last such call made
NewDatasetRef ==
    CASE op' = "add_select" ->
            Last(insight'.query.queryBuilder.select).datasetId
      [] op' = "add_filter" ->
            Last(insight'.query.queryBuilder.where).column.datasetId
      [] op' = "add_order_by" ->
            Last(insight'.query.queryBuilder.orderBy).column.datasetId

\* the ids of the datasets the builder holds
AddedDatasetIds ==
    { insight.query.queryBuilder.datasets[i].datasetId :
        i \in 1..Len(insight.query.queryBuilder.datasets) }

\* C13: add_select, add_filter and add_order_by called without a dataset_id
\* (None, or the empty string, which the code takes as not given) on a
\* builder that holds datasets refer to the dataset added FIRST, not to the
\* one added last; a dataset_id that is given is used as it is.
C13_DefaultDatasetIsFirst ==
    [][(op' \in DatasetTakingOps /\ ~raised') =>
            LET d == Val(arg').dataset_id
                datasets == insight.query.queryBuilder.datasets
            IN  IF ~IsNone(d) /\ Val(d) # ""
                THEN NewDatasetRef = Val(d)
                ELSE datasets # <<>> =>
                        NewDatasetRef = datasets[1].datasetId
      ]_vars

\* C13 witness: two different datasets were added and add_filter without a
\* dataset_id made a predicate on the first one
C13_Witness ==
    /\ op = "add_filter"
    /\ ~raised
    /\ IsNone(Val(arg).dataset_id)
    /\ Len(insight.query.queryBuilder.datasets) = 2
    /\ insight.query.queryBuilder.datasets[1].datasetId = "ds1"
    /\ insight.query.queryBuilder.datasets[2].datasetId = "ds2"
    /\ Last(insight.query.queryBuilder.where).column.datasetId = "ds1"

\* C14: the dataset reference of every element made by add_select, add_filter
\* or add_order_by is the id of a dataset already added at the time of the
\* call, or the empty string when no dataset had been added.
C14_DatasetRefsResolve ==
    [][(op' \in DatasetTakingOps /\ ~raised') =>
            \/ NewDatasetRef \in AddedDatasetIds
            \/ /\ insight.query.queryBuilder.datasets = <<>>
               /\ NewDatasetRef = ""
      ]_vars

IsPrefix(a, b) == Len(a) <= Len(b) /\ SubSeq(b, 1, Len(a)) = a

\* the SQL variables of a builder (InsightBuilderV3 holds none)
SqlVariables(i) == IF gen = "current" THEN i.query.sqlEditor.variables ELSE <<>>

\* C15: the query builder is append-only: over every operation the datasets,
\* select, where, orderBy and SQL-variable lists before the call are prefixes
\* of the lists after it (nothing is removed, reordered or replaced).
C15_ListsAppendOnly ==
    [][/\ IsPrefix(insight.query.queryBuilder.datasets,
                   insight'.query.queryBuilder.datasets)
       /\ IsPrefix(insight.query.queryBuilder.select,
                   insight'.query.queryBuilder.select)
       /\ IsPrefix(insight.query.queryBuilder.where,
                   insight'.query.queryBuilder.where)
       /\ IsPrefix(insight.query.queryBuilder.orderBy,
                   insight'.query.queryBuilder.orderBy)
       /\ IsPrefix(SqlVariables(insight), SqlVariables(insight'))
      ]_vars

\* C15 witness: add_select_defs extended a select list that add_select had
\* put an element in, on a builder that also holds an SQL variable
C15_Witness ==
    /\ op = "add_select_defs"
    /\ prevOp = "add_select"
    /\ Len(insight.query.queryBuilder.select) = 2
    /\ insight.query.queryBuilder.select[2].id = "pre_s"
    /\ Len(SqlVariables(insight)) = 1

\* C18: each add call puts its element at the end of its list and build()
\* lists datasets, select, where and orderBy in that order; add_dataset(id)
\* with default arguments makes {datasetId: id, join: {type: "inner", on: []}}
\* and the list object under "on" is a new one for each dataset.
C18_CallOrderAndDefaultJoin ==
    /\ [][op' = "add_dataset" =>
            /\ insight'.query.queryBuilder.datasets =
                  Append(insight.query.queryBuilder.datasets,
                         [datasetId |-> Val(arg'),
                          join |-> [type |-> "inner", on |-> <<>>]])
       ]_vars
    /\ [][(op' \in DatasetTakingOps /\ ~raised') =>
            LET qb == insight.query.queryBuilder
                qbAfter == insight'.query.queryBuilder
            IN  CASE op' = "add_select" -> Front(qbAfter.select) = qb.select
                  [] op' = "add_filter" -> Front(qbAfter.where) = qb.where
                  [] op' = "add_order_by" -> Front(qbAfter.orderBy) = qb.orderBy
       ]_vars
    /\ [](/\ Len(joinOnLists) = Len(insight.query.queryBuilder.datasets)
          /\ NoDuplicates(joinOnLists))
    /\ []((op = "build" /\ ~IsNone(out)) =>
            LET qb == insight.query.queryBuilder
                built == Val(out).query.queryBuilder
            IN  /\ built.datasets = qb.datasets
                /\ Len(built.select) = Len(qb.select)
                /\ \A i \in 1..Len(qb.select) : built.select[i].id = qb.select[i].id
                /\ Len(built.where) = Len(qb.where)
                /\ \A i \in 1..Len(qb.where) : built.where[i].id = qb.where[i].id
                /\ Len(built.orderBy) = Len(qb.orderBy)
                /\ \A i \in 1..Len(qb.orderBy) :
                      built.orderBy[i].id = qb.orderBy[i].id)

\* C18 witness: build() after add_dataset("ds2") and add_dataset("ds1") lists
\* ds2 before ds1, each with the default join
C18_Witness ==
    /\ op = "build"
    /\ prevOp = "add_dataset"
    /\ Val(out).query.queryBuilder.datasets =
          << [datasetId |-> "ds2", join |-> [type |-> "inner", on |-> <<>>]],
             [datasetId |-> "ds1", join |-> [type |-> "inner", on |-> <<>>]] >>
    /\ joinOnLists = <<1, 2>>

\* the operations that set the visualization config
ConfigSettingOps ==
    {"set_config", "set_table", "set_big_number", "set_bar_chart",
     "set_line_chart", "set_pie_chart", "set_map_chart"}

\* the config the call `opname` with arguments `a` leaves on a builder on
\* which nothing was called before
ConfigOnFreshBuilder(opname, a) ==
    CASE opname = "set_config" -> a
      [] opname = "set_table" -> TableConfig(a)
      [] opname = "set_big_number" -> BigNumberConfig(a[1])
      [] opname = "set_bar_chart" -> BarChartConfig(a[1], a[2])
      [] opname = "set_line_chart" -> LineChartConfig(a[1], a[2])
      [] opname = "set_pie_chart" -> PieChartConfig(a[1], a[2])
      [] opname = "set_map_chart" -> MapChartConfig(a[1], a[2], a[3], UuidHex(0))

\* a config with the generated id of its map layer left out
WithoutLayerId(cfg) ==
    IF cfg.type = "map-chart"
    THEN [cfg EXCEPT !.layers = [i \in 1..Len(@) |-> [@[i] EXCEPT !.id = ""]]]
    ELSE cfg

\* C17: the config is determined by the last config-setting call alone
\* (set_config or a set_<chart> helper): after such a call it equals what the
\* call makes on a fresh builder (up to the random id of a map layer), every
\* other operation leaves it as it is, build() reports it, and it is null as
\* long as no such call was made.
C17_LastConfigWins ==
    /\ [][IF op' \in ConfigSettingOps
          THEN /\ ~raised'
               /\ ~IsNone(insight'.config)
               /\ WithoutLayerId(Val(insight'.config)) =
                     WithoutLayerId(ConfigOnFreshBuilder(op', Val(arg')))
          ELSE insight'.config = insight.config
       ]_vars
    /\ [](calls = 0 => IsNone(insight.config))
    /\ []((op = "build" /\ ~IsNone(out)) => Val(out).config = insight.config)

\* C17 witness: set_big_number called right after set_bar_chart left the
\* big-number config, with no key of the bar chart in it
C17_Witness ==
    /\ op = "set_big_number"
    /\ prevOp = "set_bar_chart"
    /\ insight.config = Some(BigNumberConfig(YAxisColumn))
    /\ "xAxis" \notin DOMAIN Val(insight.config)

\* the chart helpers of the query builders
ChartHelpers ==
    {"set_bar_chart", "set_line_chart", "set_pie_chart", "set_table",
     "set_big_number", "set_map_chart"}

\* C16: in every generation of the query builder each chart helper changes
\* only the config: the query (mode, SQL string, datasets, select, where,
\* orderBy, limit) is the same before and after the call, in both modes.
C16_ChartHelpersOnlySetConfig ==
    [][op' \in ChartHelpers => insight'.query = insight.query]_vars

\* C20: the legacy InsightBuilderV3 of gOS_api_sdk rejects, at the call, a
\* set_mode outside "queryBuilder"/"sqlEditor", an add_filter with an
\* operator outside the enumeration and a set_limit with a negative limit,
\* leaving the builder unchanged.
C20_LegacyFailFast ==
    [][(\/ op' = "set_mode" /\ Val(arg') \notin {"queryBuilder", "sqlEditor"}
        \/ op' = "add_filter" /\ Val(arg').operator \notin VALID_FILTER_OPERATORS
        \/ op' = "set_limit" /\ Val(arg') < 0)
       => (raised' /\ insight' = insight)]_vars

(***************************************************************************)
(* Claims about both builders.                                             *)
(***************************************************************************)
\* C21: build() never fails: in every reachable state of the ReportBuilder
\* and of the query builder, also after a call that raised (next_column,
\* add_filter, set_mode, set_limit), build() raises nothing and returns a
\* document.
C21_BuildNeverFails ==
    [][op' = "build" => (~raised' /\ ~IsNone(out'))]_vars

\* C21 witness: start_columns(["100%"]), a next_column() that raised (there
\* is no second column), then a build() that returned the document
C21_Witness ==
    /\ op = "build"
    /\ prevOp = "next_column"
    /\ calls = 3
    /\ ~raised
    /\ ~IsNone(out)
    /\ "content" \in DOMAIN Val(out)
    /\ Len(Val(out).content.editorState) = 1
    /\ Val(out).content.editorState[1].type = "column_group"
    /\ Len(Val(out).content.editorState[1].children) = 1

\* C22: the schema version tags belong to the builder generation and no
\* operation changes them: InsightBuilder holds and builds query.version 4 and
\* queryBuilder.version 3, with a pivot object and a variables list;
\* InsightBuilderV3 holds and builds query.version 3 and queryBuilder.version
\* 2, with neither pivot nor variables.
C22_VersionTags ==
    /\ [](gen = "current" =>
            /\ insight.query.version = 4
            /\ insight.query.queryBuilder.version = 3)
    /\ [](gen = "v3" =>
            /\ insight.query.version = 3
            /\ insight.query.queryBuilder.version = 2)
    /\ []((op = "build" /\ ~IsNone(out) /\ gen = "current") =>
            LET q == Val(out).query
            IN  /\ q.version = 4
                /\ q.queryBuilder.version = 3
                /\ "pivot" \in DOMAIN q.queryBuilder
                /\ "variables" \in DOMAIN q.sqlEditor)
    /\ []((op = "build" /\ ~IsNone(out) /\ gen = "v3") =>
            LET q == Val(out).query
            IN  /\ q.version = 3
                /\ q.queryBuilder.version = 2
                /\ "pivot" \notin DOMAIN q.queryBuilder
                /\ "variables" \notin DOMAIN q.sqlEditor)

\* C22 witness: an InsightBuilderV3 built after set_sql, with version 3 and 2
C22_Witness ==
    /\ gen = "v3"
    /\ op = "build"
    /\ prevOp = "set_sql"
    /\ Val(out).query.version = 3
    /\ Val(out).query.queryBuilder.version = 2
    /\ Val(out).query.sqlEditor = [sqlString |-> "SELECT 1"]

\* the ids of the projections, predicates and sort specs a builder holds
ElementIds(i) ==
    LET qb == i.query.queryBuilder
    IN  { qb.select[k].id : k \in 1..Len(qb.select) } \cup
        { qb.where[k].id : k \in 1..Len(qb.where) } \cup
        { qb.orderBy[k].id : k \in 1..Len(qb.orderBy) }

\* the ids a caller hands in: the id argument of add_select and the ids of
\* pre-built definitions
CallerSuppliedIds ==
    { a.id[1] : a \in { x \in SelectArgs : ~IsNone(x.id) } } \cup
    { PrebuiltSelects[k].id : k \in 1..Len(PrebuiltSelects) } \cup
    { PrebuiltFilters[k].id : k \in 1..Len(PrebuiltFilters) }

\* C23: add_select uses the caller's id and label when they are given
\* (non-empty) and otherwise a newly generated id and the column id as label;
\* an id generated by add_select, add_filter or add_order_by differs from
\* every id the builder already holds, so the ids of a select list that holds
\* no caller-supplied id are pairwise distinct.
C23_SelectIdsAndLabels ==
    /\ [][op' = "add_select" =>
            LET a == Val(arg')
                new == Last(insight'.query.queryBuilder.select)
            IN  /\ ~raised'
                /\ IF ~IsNone(a.id) /\ Val(a.id) # ""
                   THEN new.id = Val(a.id)
                   ELSE new.id \notin ElementIds(insight)
                /\ IF ~IsNone(a.label) /\ Val(a.label) # ""
                   THEN new.label = Val(a.label)
                   ELSE new.label = a.column_id
       ]_vars
    /\ [][(op' = "add_filter" /\ ~raised') =>
            Last(insight'.query.queryBuilder.where).id \notin ElementIds(insight)
       ]_vars
    /\ [][op' = "add_order_by" =>
            Last(insight'.query.queryBuilder.orderBy).id
                \notin ElementIds(insight)
       ]_vars
    /\ [](LET select == insight.query.queryBuilder.select
          IN  (\A k \in 1..Len(select) : select[k].id \notin CallerSuppliedIds)
                => \A j, k \in 1..Len(select) :
                      select[j].id = select[k].id => j = k)

\* C23 witness: add_select without id after an add_filter and an add_select
\* without id: two projections and a predicate with three different ids, the
\* label being the column id
C23_Witness ==
    /\ op = "add_select"
    /\ IsNone(Val(arg).id)
    /\ Len(insight.query.queryBuilder.select) = 2
    /\ Len(insight.query.queryBuilder.where) = 1
    /\ Cardinality(ElementIds(insight)) = 3
    /\ insight.query.queryBuilder.select[2].label = "col_a"
    /\ ElementIds(insight) \cap CallerSuppliedIds = {}

\* C24: dataset references are resolved when the element is added and never
\* afterwards: add_dataset changes no projection, predicate or sort spec the
\* builder holds, and build() reports for each of them the reference it
\* holds, so an element added before any add_dataset keeps the empty-string
\* reference in every later build().
C24_ResolvedAtAddTime ==
    /\ [][op' = "add_dataset" =>
            /\ insight'.query.queryBuilder.select =
                  insight.query.queryBuilder.select
            /\ insight'.query.queryBuilder.where =
                  insight.query.queryBuilder.where
            /\ insight'.query.queryBuilder.orderBy =
                  insight.query.queryBuilder.orderBy
       ]_vars
    /\ [][(op' \in DatasetTakingOps /\ ~raised'
           /\ IsNone(Val(arg').dataset_id)
           /\ insight.query.queryBuilder.datasets = <<>>)
          => NewDatasetRef = ""]_vars
    /\ []((op = "build" /\ ~IsNone(out)) =>
            LET qb == insight.query.queryBuilder
                built == Val(out).query.queryBuilder
            IN  /\ Len(built.select) = Len(qb.select)
                /\ \A k \in 1..Len(qb.select) :
                      built.select[k].datasetId = qb.select[k].datasetId
                /\ Len(built.where) = Len(qb.where)
                /\ \A k \in 1..Len(qb.where) :
                      built.where[k].column.datasetId =
                          qb.where[k].column.datasetId
                /\ Len(built.orderBy) = Len(qb.orderBy)
                /\ \A k \in 1..Len(qb.orderBy) :
                      built.orderBy[k].column.datasetId =
                          qb.orderBy[k].column.datasetId)

\* C24 witness: add_select without dataset on a builder without datasets,
\* then add_dataset, then build(): the built projection still refers to ""
C24_Witness ==
    /\ op = "build"
    /\ prevOp = "add_dataset"
    /\ calls = 3
    /\ Len(Val(out).query.queryBuilder.datasets) = 1
    /\ Len(Val(out).query.queryBuilder.select) = 1
    /\ Val(out).query.queryBuilder.select[1].datasetId = ""

\* C25: mode and the two query bodies are independent: set_sql succeeds in
\* either mode and changes only the SQL string, set_mode changes only the
\* mode (neither the SQL string nor the structured body is cleared), and
\* build() emits both the sqlEditor and the queryBuilder body, as held,
\* whatever the mode.
C25_ModeAndBodiesIndependent ==
    /\ [][op' = "set_sql" =>
            /\ ~raised'
            /\ insight'.query.sqlEditor.sqlString = Val(arg')
            /\ [insight' EXCEPT !.query.sqlEditor.sqlString =
                                   insight.query.sqlEditor.sqlString] = insight
       ]_vars
    /\ [][op' = "set_mode" =>
            /\ insight'.query.sqlEditor = insight.query.sqlEditor
            /\ insight'.query.queryBuilder = insight.query.queryBuilder
            /\ [insight' EXCEPT !.query.mode = insight.query.mode] = insight
       ]_vars
    /\ []((op = "build" /\ ~IsNone(out)) =>
            LET q == Val(out).query
            IN  /\ {"sqlEditor", "queryBuilder"} \subseteq DOMAIN q
                /\ q.sqlEditor.sqlString = insight.query.sqlEditor.sqlString
                /\ Len(q.queryBuilder.datasets) =
                      Len(insight.query.queryBuilder.datasets)
                /\ Len(q.queryBuilder.select) =
                      Len(insight.query.queryBuilder.select)
                /\ Len(q.queryBuilder.where) =
                      Len(insight.query.queryBuilder.where))

\* C25 witness: set_mode("sqlEditor") on a builder that holds a dataset, then
\* set_sql, which left mode and dataset as they were
C25_Witness ==
    /\ op = "set_sql"
    /\ prevOp = "set_mode"
    /\ calls = 3
    /\ insight.query.mode = "sqlEditor"
    /\ insight.query.sqlEditor.sqlString = "SELECT 1"
    /\ Len(insight.query.queryBuilder.datasets) = 1

\* C26: add_select_defs and add_filter_defs never fail and put all given
\* elements, in their order, after the elements already held, unchecked: a
\* predicate whose operator is outside the fixed enumeration is accepted by
\* add_filter_defs and build() lists it in where.
C26_BulkAddUnchecked ==
    /\ [][op' = "add_filter_defs" =>
            /\ ~raised'
            /\ insight'.query.queryBuilder.where =
                  insight.query.queryBuilder.where \o Val(arg')
       ]_vars
    /\ [][op' = "add_select_defs" =>
            /\ ~raised'
            /\ insight'.query.queryBuilder.select =
                  insight.query.queryBuilder.select \o Val(arg')
       ]_vars
    /\ []((op = "build" /\ ~IsNone(out)) =>
            LET where == insight.query.queryBuilder.where
                built == Val(out).query.queryBuilder.where
            IN  /\ Len(built) = Len(where)
                /\ \A k \in 1..Len(where) :
                      /\ built[k].id = where[k].id
                      /\ built[k].operator = where[k].operator)

\* C26 witness: add_filter, then add_filter_defs with a valid and an invalid
\* predicate, then build(): where lists the three in that order
C26_Witness ==
    /\ op = "build"
    /\ prevOp = "add_filter_defs"
    /\ calls = 3
    /\ Len(Val(out).query.queryBuilder.where) = 3
    /\ Val(out).query.queryBuilder.where[1].id \notin {"pre_w", "pre_bad"}
    /\ Val(out).query.queryBuilder.where[2].id = "pre_w"
    /\ Val(out).query.queryBuilder.where[3].id = "pre_bad"
    /\ Val(out).query.queryBuilder.where[3].operator \notin VALID_FILTER_OPERATORS

(***************************************************************************)
(* Further claims about the ReportBuilder.                                 *)
(***************************************************************************)
\* C27: in every reachable state of the ReportBuilder a column group is open
\* exactly when the active column index is defined, and then the index k
\* satisfies 0 <= k < number of columns of the open group (also after a
\* next_column() that raised, and for any layout), so a block-adding
\* operation never fails on an out-of-range column.
C27_ColumnIndexInRange ==
    /\ GroupOpen <=> ~IsNone(current_column)
    /\ GroupOpen =>
          /\ 0 <= Val(current_column)
          /\ Val(current_column) < Len(Columns)
    /\ op \in BlockAddingOps => ~raised

\* extract_insights_from_structure(structure) of api_utils.py: the insight
\* ids of the widget blocks found anywhere in a list of blocks.  The only
\* values of a block that are dicts or lists are its children (a list of
\* blocks) and the widgetData of a widget (a dict of strings).
RECURSIVE extract_insights_from_structure(_)
RECURSIVE ExtractFromBlock(_)
ExtractFromBlock(block) ==
    (IF /\ "type" \in DOMAIN block
        /\ block.type = "widget"
        /\ "widgetData" \in DOMAIN block
        /\ "insightId" \in DOMAIN block.widgetData
        /\ block.widgetData.insightId # ""
     THEN {block.widgetData.insightId}
     ELSE {})
    \cup
    (IF "children" \in DOMAIN block
     THEN extract_insights_from_structure(block.children)
     ELSE {})

extract_insights_from_structure(structure) ==
    UNION { ExtractFromBlock(structure[i]) : i \in 1..Len(structure) }

\* C28: for every document build() returns, the insight ids in
\* metadata.insights are exactly the insight ids of the widget blocks found
\* anywhere in its content (what extract_insights_from_structure returns
\* for that content), after any sequence of operations.
C28_MetadataMatchesContent ==
    (op = "build" /\ ~IsNone(out) /\ "metadata" \in DOMAIN Val(out)) =>
        LET doc == Val(out)
        IN  { doc.metadata.insights[i] : i \in 1..Len(doc.metadata.insights) }
              = extract_insights_from_structure(doc.content.editorState)

\* C29: a document build() returned is a snapshot: operations performed on
\* the builder afterwards do not change the content or the metadata insight
\* list of the document returned earlier.
C29_BuildReturnsSnapshot ==
    ~IsNone(returned) =>
        /\ ReturnedNow.content = Val(returned).content
        /\ ReturnedNow.metadata.insights = Val(returned).metadata.insights

(***************************************************************************)
(* Claims about api_utils.py.                                              *)
(***************************************************************************)
\* how many insights of the gateway `g` carry the KPI id
CountKpi(g, kpi_id) ==
    Cardinality({ i \in 1..Len(g) : KpiIdOf(g[i].name) = kpi_id })

\* C30: create_or_update_insight sends create_insight only when no insight
\* with the KPI id is found in the solution; when one is found it sends
\* exactly one update_insight for that insight and no create_insight,
\* whatever the outcome of the update, so that a call never leaves two
\* insights with a KPI id where there was one.
C30_CreateOnlyWhenNotFound ==
    [][op' = "create_or_update_insight" =>
        LET a == Val(arg')
            found == { i \in 1..Len(gateway) :
                         KpiIdOf(gateway[i].name) = a.kpi_id }
        IN  /\ (a.lookup_ok /\ found # {}) =>
                  /\ Len(sent') = 1
                  /\ sent'[1].command = "update_insight"
                  /\ \E i \in found : sent'[1].id = gateway[i].id
            /\ (\E k \in 1..Len(sent') : sent'[k].command = "create_insight")
                  => ~(a.lookup_ok /\ found # {})
            /\ (a.lookup_ok /\ CountKpi(gateway, a.kpi_id) = 1) =>
                  CountKpi(gateway', a.kpi_id) = 1
      ]_vars

====
